---- MODULE Spec2Model ----
(***************************************************************************)
(* Model of the edge data handler (dataHandler_refactored).                *)
(*                                                                         *)
(* Part I  : the delivery engine  - DataSender.main_loop, its send         *)
(*           functions, the spool (FailedMessageTable behind               *)
(*           SqliteAdaptor) and the retry worker FailedDataSender.          *)
(* Part II : the 2K/4K merge engine - Merger.main_loop, _drain_queue,      *)
(*           _insert_sorted, _remove_old_data and _compare.                *)
(*                                                                         *)
(* Python values are modelled by string tokens so that every field has one *)
(* TLA+ type: "True"/"False"/"None" are the Python constants, "absent" is  *)
(* a key that is not in the dict, "NULL" is the defaultdict's default      *)
(* string, "bytes" an opaque bytes object, "rescd" a non-"00" response     *)
(* code string returned by the image server.                               *)
(***************************************************************************)
EXTENDS Integers, Sequences, FiniteSets, TLC

VARIABLES
    camera_id,      \* DataSender.camera_id        ("None" until discovered)
    lane_offset,    \* DataSender.lane_offset      ("None" until discovered)
    to_server_q,    \* Main.to_server_q            (queue of records)
    spool,          \* rows of the failed_messages table, ascending id
    row_seq,        \* the table's AUTOINCREMENT counter
    retry_pc,       \* FailedDataSender.main_loop position
    retry_id,       \* the row id the retry worker holds (0: none)
    published,      \* number of records the upstream stages have produced
    round,          \* per record: what the sender's last iteration did
    recalled,       \* per record: destinations called again after an ack
    unset_seen,     \* records the sender dequeued while camera_id was None
    to_merge_q_2k,  \* Main.to_merge_q_2k
    to_merge_q_4k,  \* Main.to_merge_q_4k
    compare_2k,     \* Merger.compare_2k  (dict key -> sorted list)
    compare_4k,     \* Merger.compare_4k
    now,            \* wall clock, int(time.time())
    ticks,          \* number of clock advances so far
    pub_2k,         \* number of 2K records put on to_merge_q_2k
    pub_4k,         \* number of 4K records put on to_merge_q_4k
    last_pass,      \* merge emissions of the most recent matching pass
    merged_q,       \* records the merger has put on the server queue
    special_site,   \* config["special_site"]["enabled"]
    received,       \* per receiver iteration: the payload and what was queued
    kv_bus,         \* messages the Redis sink has published on its channel
    sent_log,       \* per presence record the sender dequeued: what it did
    rpc_pc,         \* gRPCAdaptor._retry_loop position (Java mode)
    rpc_cid,        \* the camera id its getEdgeInfo call returned
    volt_pc,        \* VoltDBAdaptor._retry_loop position
    volt_cid,       \* the camera id its intersection query returned
    volt_connected, \* VoltDBAdaptor.connected
    stopped,        \* the workers whose main_loop an exception has ended
    prep_in,        \* records on to_server_q the sender has not prepared yet
    prep_log,       \* per prepared record: the record before and after
    ocr_log,        \* per record the plate reader took: candidates and result
    plate_log,      \* per plate image read: the characters and their order
    tick_seen,      \* the records the retry worker re-injected in this tick
    replayed,       \* the records whose re-injection ended with the delete
    fetch_failed,   \* the retry worker's last fetch or deserialization raised
    grpc_call,      \* gRPCAdaptor.insert: the mode and what the calls will do
    grpc_result,    \* gRPCAdaptor.insert: what the call did (Pending: not run)
    mem,            \* the dict and list objects the workers have created
    held            \* the references each queue and the merger buffer hold

sender_vars == <<camera_id, lane_offset, to_server_q, spool, row_seq, retry_pc,
                 retry_id, published, round, recalled, unset_seen>>
merger_vars == <<to_merge_q_2k, to_merge_q_4k, compare_2k, compare_4k, now,
                 ticks, pub_2k, pub_4k, last_pass, merged_q>>
receiver_vars == <<special_site, received, kv_bus, sent_log>>
discovery_vars == <<rpc_pc, rpc_cid, volt_pc, volt_cid, volt_connected>>
prep_vars == <<prep_in, prep_log>>
ocr_vars == <<ocr_log, plate_log>>
retry_vars == <<tick_seen, replayed, fetch_failed>>
insert_vars == <<grpc_call, grpc_result>>
object_vars == <<mem, held>>
stage_vars == <<prep_vars, ocr_vars, retry_vars, insert_vars, object_vars>>
worker_vars == <<stopped, stage_vars>>
vars == <<sender_vars, merger_vars, receiver_vars, discovery_vars, worker_vars>>

(***************************************************************************)
(* Bounds of the model.                                                    *)
(***************************************************************************)
MaxRecords == 2     \* records produced for the sender
MaxRows    == 3     \* spool rows ever written
MaxPub2K   == 2     \* 2K records published to the merger
MaxPub4K   == 2     \* 4K records published to the merger
MaxTicks   == 1     \* clock advances
ClockSkew  == 2     \* a stop-line time is at most this far ahead of the clock

(***************************************************************************)
(* PART I - delivery engine                                                *)
(***************************************************************************)

\* self.servers, in configuration order, and their names.
Servers == <<"A", "B">>
all_server_names == {Servers[i] : i \in DOMAIN Servers}
Dests == all_server_names \cup {"API"}

\* data.get("_send_to") is None
NONE_LIST == {"None"}

RecordIds == 1..MaxRecords

\* sent_to of a record that has no "sent_to" key yet (or an empty one).
NoSentTo == [d \in Dests |-> "absent"]

\* Records the upstream stages (receiver, merger, OCR stage) put on
\* to_server_q.  A raw-4K record leaves the OCR stage either marked N_IMAGE
\* (no candidate image) or with the encoded vehicle image and, when a plate
\* was cropped, the encoded plate image.
NewRecord(id, dtype, kind, send_to) ==
    [ unique_key_plain    |-> id,
      data_type           |-> dtype,
      send_to             |-> send_to,
      sent_to             |-> NoSentTo,
      prepared            |-> "absent",
      unique_key          |-> "absent",
      img_path_nm         |-> IF dtype = "4k_R" /\ kind = "N_IMAGE"
                              THEN "N_IMAGE" ELSE "/img",
      image_data_4k       |-> IF dtype = "4k_R" /\ kind # "N_IMAGE"
                              THEN "bytes" ELSE "absent",
      plate_image_data_4k |-> IF dtype = "4k_R" /\ kind = "car+plate"
                              THEN "bytes" ELSE "absent" ]

DTypes == {"2k", "4k_R", "ped"}
Kinds(dtype) == IF dtype = "4k_R" THEN {"N_IMAGE", "car", "car+plate"} ELSE {"plain"}
SendToChoices == {NONE_LIST, {"A"}}

----------------------------------------------------------------------------
\* json.dumps / json.loads of one value: the JSON text of a Python value,
\* as its JSON type and its literal.
json_value(v) ==
    CASE v = "True"   -> [t |-> "literal", v |-> "true"]
      [] v = "False"  -> [t |-> "literal", v |-> "false"]
      [] v = "None"   -> [t |-> "literal", v |-> "null"]
      [] v = "absent" -> [t |-> "absent",  v |-> ""]
      [] OTHER        -> [t |-> "string",  v |-> v]

py_value(j) ==
    CASE j.t = "absent"                 -> "absent"
      [] j.t = "string"                 -> j.v
      [] j.t = "literal" /\ j.v = "true"  -> "True"
      [] j.t = "literal" /\ j.v = "false" -> "False"
      [] OTHER                          -> "None"

\* json.dumps(data) raises TypeError when a value is a bytes object.
json_serializable(data) ==
    /\ data.image_data_4k # "bytes"
    /\ data.plate_image_data_4k # "bytes"

json_dumps(data) ==
    [ unique_key_plain    |-> data.unique_key_plain,
      data_type           |-> json_value(data.data_type),
      send_to             |-> data.send_to,
      sent_to             |-> [d \in Dests |-> json_value(data.sent_to[d])],
      prepared            |-> json_value(data.prepared),
      unique_key          |-> json_value(data.unique_key),
      img_path_nm         |-> json_value(data.img_path_nm),
      image_data_4k       |-> json_value(data.image_data_4k),
      plate_image_data_4k |-> json_value(data.plate_image_data_4k) ]

json_loads(payload) ==
    [ unique_key_plain    |-> payload.unique_key_plain,
      data_type           |-> py_value(payload.data_type),
      send_to             |-> payload.send_to,
      sent_to             |-> [d \in Dests |-> py_value(payload.sent_to[d])],
      prepared            |-> py_value(payload.prepared),
      unique_key          |-> py_value(payload.unique_key),
      img_path_nm         |-> py_value(payload.img_path_nm),
      image_data_4k       |-> py_value(payload.image_data_4k),
      plate_image_data_4k |-> py_value(payload.plate_image_data_4k) ]

\* SqliteAdaptor.insert on the spool: the row is appended with the next
\* AUTOINCREMENT id, or (json.dumps raised) nothing is written and the
\* adaptor returns False.
sqlite_insert_ok(data) == json_serializable(data)

spool_insert(rows, seq, data) ==
    IF sqlite_insert_ok(data)
    THEN Append(rows, [id |-> seq + 1, payload |-> json_dumps(data)])
    ELSE rows

fetch_newest(rows) == IF rows = <<>> THEN <<>> ELSE <<rows[Len(rows)]>>

\* FailedMessageTable.fetch_one: the row with the lowest id, or none.
fetch_one(rows) == IF rows = <<>> THEN <<>> ELSE <<rows[1]>>

\* FailedMessageTable.delete_by_id
delete_by_id(rows, id) == SelectSeq(rows, LAMBDA r : r.id # id)

----------------------------------------------------------------------------
\* What one call can do.  A sink adaptor's insert returns a bool or raises
\* (VoltDBAdaptor.insert: KeyError on a data_type with no table mapping);
\* image_post_file returns a bool; image_post_bytes returns what
\* handle_response returned: True, False, the response code, or None when
\* the response has no rescd.
InsertResults    == {"True", "False", "raise"}
PostFileResults  == {"True", "False"}
PostBytesResults == {"True", "False", "rescd", "None"}

\* Python truthiness and the value of "a and b".
truthy(v) == v \in {"True", "rescd"}
py_and(a, b) == IF truthy(a) THEN b ELSE a

\* What the image server does with one upload request: it answers with
\* rescd "00", with another rescd ("99"), with a JSON body that has no
\* rescd, or the request fails (timeout, connection error: a
\* requests.RequestException).
UploadOutcomes == {"00", "99", "no_rescd", "timeout"}

\* ImagePost.handle_response, for a response that was received.
handle_response(response) ==
    CASE response = "00"       -> "True"
      [] response = "99"       -> "rescd"
      [] response = "no_rescd" -> "None"

\* ImagePost.image_post_file: a request error returns True ("no retries"),
\* otherwise True exactly when handle_response returned True.
image_post_file(response) ==
    IF response = "timeout" THEN "True"
    ELSE IF handle_response(response) = "True" THEN "True" ELSE "False"

\* ImagePost.image_post_bytes: "NULL" (no image) is skipped as a success, a
\* request error returns False, otherwise what handle_response returned.
image_post_bytes(image_bytes, response) ==
    IF image_bytes = "NULL" THEN "True"
    ELSE IF response = "timeout" THEN "False"
    ELSE handle_response(response)

\* Reading data[key] on the defaultdict: a missing key is created as 'NULL'.
default_get(v) == IF v = "absent" THEN "NULL" ELSE v

already_sent_never(sent_to, name) == FALSE

\* sender.py line 247: a sink that already has the record is skipped.
already_sent(sent_to, name) == sent_to[name] = "True"

\* sender.py lines 298, 343, 395, 429: the upload is due.
upload_due(sent_to) == sent_to["API"] = "False"

\* The state a send function threads through: the record, the flag it
\* returns, whether a call raised, and the destinations it called.
SendState(data) ==
    [data |-> data, sqlite_insert |-> FALSE, raised |-> FALSE, called |-> {}]

not_allowed_never(name, allowed_servers) == FALSE

\* sender.py line 237: "if server.name not in allowed_servers: continue"
not_allowed(name, allowed_servers) == name \notin allowed_servers

\* DataSender._send_default, from server index i on.
RECURSIVE send_default_from(_, _, _, _)
send_default_from(i, st, allowed_servers, res) ==
    IF i > Len(Servers) \/ st.raised THEN st
    ELSE LET name == Servers[i] IN
         IF not_allowed(name, allowed_servers)
         THEN send_default_from(i + 1, st, allowed_servers, res)
         ELSE LET s0 == IF st.data.sent_to[name] = "absent"
                        THEN [st.data.sent_to EXCEPT ![name] = "False"]
                        ELSE st.data.sent_to
                  st0 == [st EXCEPT !.data.sent_to = s0]
              IN IF already_sent(s0, name)
                 THEN send_default_from(i + 1, st0, allowed_servers, res)
                 ELSE IF res[name] = "raise"
                 THEN [st0 EXCEPT !.raised = TRUE, !.called = @ \cup {name}]
                 ELSE send_default_from(i + 1,
                        [st0 EXCEPT !.data.sent_to[name] = res[name],
                                    !.sqlite_insert = @ \/ res[name] = "False",
                                    !.called = @ \cup {name}],
                        allowed_servers, res)

send_default(data, allowed_servers, res) ==
    send_default_from(1, SendState(data), allowed_servers, res)

\* "self._send_default(data, allowed_servers) or sqlite_insert"
or_insert(st, flag) ==
    [st EXCEPT !.sqlite_insert = @ \/ (~st.raised /\ flag)]

\* DataSender._send_2k (and _send_wait, _send_abnormal, which differ only in
\* the key that names the file): upload the image file, then _send_default.
send_2k(data, allowed_servers, res, up) ==
    LET s0 == IF data.sent_to["API"] = "absent"
              THEN [data.sent_to EXCEPT !["API"] = "False"] ELSE data.sent_to
        due == upload_due(s0)
        is_posted == image_post_file(up.file)
        d1 == [data EXCEPT !.sent_to = IF due THEN [s0 EXCEPT !["API"] = is_posted]
                                              ELSE s0]
        st == send_default(d1, allowed_servers, res)
    IN or_insert([st EXCEPT !.called = @ \cup (IF due THEN {"API"} ELSE {})],
                 due /\ is_posted = "False")

\* DataSender._send_raw_4k: two byte-buffer uploads, free the buffers when
\* "car_posted and plate_posted" is truthy, then _send_default.
send_raw_4k(data, allowed_servers, res, up) ==
    LET s0 == IF data.sent_to["API"] = "absent"
              THEN [data.sent_to EXCEPT !["API"] = "False"] ELSE data.sent_to
        due == upload_due(s0)
        car_bytes    == default_get(data.image_data_4k)
        plate_bytes  == default_get(data.plate_image_data_4k)
        car_posted   == image_post_bytes(car_bytes, up.car)
        plate_posted == image_post_bytes(plate_bytes, up.plate)
        is_posted    == py_and(car_posted, plate_posted)
        d1 == IF ~due THEN [data EXCEPT !.sent_to = s0]
              ELSE [data EXCEPT
                      !.sent_to = [s0 EXCEPT !["API"] = is_posted],
                      !.image_data_4k =
                          IF truthy(is_posted) THEN "absent" ELSE car_bytes,
                      !.plate_image_data_4k =
                          IF truthy(is_posted) THEN "absent" ELSE plate_bytes]
        st == send_default(d1, allowed_servers, res)
    IN or_insert([st EXCEPT !.called = @ \cup (IF due THEN {"API"} ELSE {})],
                 due /\ is_posted = "False")

\* self.send_function.get(dtype, self._send_default)
send_func(data, allowed_servers, res, up) ==
    CASE data.data_type \in {"2k", "approach_queue", "abn_start"}
             -> send_2k(data, allowed_servers, res, up)
      [] data.data_type = "4k_R"
             -> send_raw_4k(data, allowed_servers, res, up)
      [] OTHER -> send_default(data, allowed_servers, res)

\* DataSender._build_before_insert with _hash_data and _get_remote_dir.  It
\* raises when lane_offset is still None for a raw-4K record (int + None) and
\* when the image file name carries no numeric timestamp, as for the
\* "N_IMAGE" names the OCR stage sets (int("I")).
ImageTypes == {"2k", "4k_R", "merge", "abn_start", "approach_queue", "lanes_queue"}

build_raises(data, offset) ==
    \/ data.data_type = "4k_R" /\ offset = "None"
    \/ data.data_type \in ImageTypes /\ data.img_path_nm = "N_IMAGE"

build_before_insert(data) ==
    [data EXCEPT !.unique_key  = "sha256",
                 !.img_path_nm = IF data.data_type \in ImageTypes
                                 THEN "remote_dir" ELSE @,
                 !.prepared    = "True"]

\* sender.py line 183: prepare only once.
needs_prepare(data) == data.prepared = "absent"

\* sender.py lines 187-193
allowed_of(data) ==
    IF data.send_to = NONE_LIST THEN all_server_names ELSE data.send_to

----------------------------------------------------------------------------
\* One iteration of DataSender.main_loop on the record it dequeued (lines
\* 168-204), for the given call results: what it did with the record.
\*   cam          "unset": camera_id was None, the record went to the spool
\*   need         the iteration reached a spool insert
\*   raised       an exception ended the iteration (line 205)
\*   prepared_ran _build_before_insert was called
\*   called       destinations whose insert / upload was called
\*   data         the record as the iteration left it
\* SenderStep adds  row: the payload of the spool row the iteration wrote,
\* acked: the destinations that were already true when it was dequeued, and
\* rescd_00: every upload request of the iteration was answered with "00".
sender_iteration(data, cam, offset, res, up) ==
    IF cam = "None"
    THEN [cam |-> "unset", need |-> TRUE, raised |-> FALSE,
          prepared_ran |-> FALSE, called |-> {}, data |-> data]
    ELSE LET prep == needs_prepare(data) IN
         IF prep /\ build_raises(data, offset)
         THEN [cam |-> "known", need |-> FALSE, raised |-> TRUE,
               prepared_ran |-> TRUE, called |-> {}, data |-> data]
         ELSE LET d1 == IF prep THEN build_before_insert(data) ELSE data
                  st == send_func(d1, allowed_of(d1), res, up)
              IN [cam |-> "known", need |-> st.sqlite_insert,
                  raised |-> st.raised, prepared_ran |-> prep,
                  called |-> st.called, data |-> st.data]

RoundNone(id) ==
    [cam |-> "none", need |-> FALSE, raised |-> FALSE, prepared_ran |-> FALSE,
     called |-> {}, data |-> NewRecord(id, "ped", "plain", NONE_LIST),
     row |-> <<>>, acked |-> {}, rescd_00 |-> TRUE]

UploadResults ==
    [file : UploadOutcomes, car : UploadOutcomes, plate : UploadOutcomes]

\* The upstream stages put a record on to_server_q.
Publish ==
    /\ published < MaxRecords
    /\ \E dtype \in DTypes, send_to \in SendToChoices :
         \E kind \in Kinds(dtype) :
            to_server_q' = Append(to_server_q,
                                  NewRecord(published + 1, dtype, kind, send_to))
    /\ published' = published + 1
    /\ UNCHANGED <<camera_id, lane_offset, spool, row_seq, retry_pc, retry_id,
                   round, recalled, unset_seen, merger_vars, receiver_vars,
                   discovery_vars, worker_vars>>

\* DataSender.set_camera_id, called by a discovery thread that found
\* camera_id unset.
set_camera_id ==
    /\ camera_id = "None"
    /\ camera_id' = "CAM01"
    /\ UNCHANGED <<lane_offset, to_server_q, spool, row_seq, retry_pc, retry_id,
                   published, round, recalled, unset_seen, merger_vars, receiver_vars,
                   discovery_vars, worker_vars>>

\* DataSender.set_lane_offset, which the discovery threads call after
\* set_camera_id.
set_lane_offset ==
    /\ camera_id # "None"
    /\ lane_offset = "None"
    /\ lane_offset' = "offset"
    /\ UNCHANGED <<camera_id, to_server_q, spool, row_seq, retry_pc, retry_id,
                   published, round, recalled, unset_seen, merger_vars, receiver_vars,
                   discovery_vars, worker_vars>>

\* The results the calls of one iteration can have: one per sink that the
\* iteration can call and per upload it can make (the others are not called
\* and are fixed).
SinkChoices(data) ==
    {res \in [all_server_names -> InsertResults] :
        \A n \in all_server_names :
            (n \notin allowed_of(data) \/ data.sent_to[n] = "True")
                => res[n] = "True"}

UploadChoices(data) ==
    {up \in UploadResults :
        LET due == data.sent_to["API"] \in {"absent", "False"} IN
        /\ (~due \/ data.data_type # "2k") => up.file = "00"
        /\ (~due \/ data.data_type # "4k_R" \/ data.image_data_4k # "bytes")
              => up.car = "00"
        /\ (~due \/ data.data_type # "4k_R" \/ data.plate_image_data_4k # "bytes")
              => up.plate = "00"}

AllTrue == [n \in all_server_names |-> "True"]
AllPosted == [file |-> "00", car |-> "00", plate |-> "00"]

\* Every upload request the iteration made for the record was answered with
\* rescd "00" (a "NULL" buffer makes no request).
all_00(data, up) ==
    CASE data.data_type = "4k_R" ->
           /\ default_get(data.image_data_4k) = "NULL" \/ up.car = "00"
           /\ default_get(data.plate_image_data_4k) = "NULL" \/ up.plate = "00"
      [] OTHER -> up.file = "00"

after_exception_unwinds(stage, raised) == IF raised THEN {stage} ELSE {}

\* The "except Exception" that closes the loop body of every worker's
\* main_loop (sender.py 205, merger.py 129, lp_detector.py 185, receiver.py
\* 135): the exception is logged and the loop takes the next item, so no
\* worker stops.
after_exception(stage, raised) == {}

\* DataSender.main_loop: one iteration.  With healthy, every sink insert and
\* every upload the iteration makes succeeds.
SenderStepWith(healthy) ==
    /\ "sender" \notin stopped
    /\ to_server_q # <<>>
    /\ row_seq < MaxRows
    /\ LET data == Head(to_server_q)
           id   == data.unique_key_plain
       IN \E res \in (IF camera_id = "None" \/ healthy THEN {AllTrue}
                      ELSE SinkChoices(data)),
             up \in (IF camera_id = "None" \/ healthy THEN {AllPosted}
                     ELSE UploadChoices(data)) :
          \E it \in {sender_iteration(data, camera_id, lane_offset, res, up)} :
            LET store == it.need /\ ~it.raised
                wrote == store /\ sqlite_insert_ok(it.data)
            IN /\ to_server_q' = Tail(to_server_q)
               /\ spool' = IF store THEN spool_insert(spool, row_seq, it.data)
                                    ELSE spool
               /\ row_seq' = IF wrote THEN row_seq + 1 ELSE row_seq
               /\ round' = [round EXCEPT ![id] =
                              [cam |-> it.cam, need |-> it.need,
                               raised |-> it.raised,
                               prepared_ran |-> it.prepared_ran,
                               called |-> it.called, data |-> it.data,
                               row |-> IF wrote THEN <<json_dumps(it.data)>>
                                                ELSE <<>>,
                               acked |-> {d \in Dests :
                                            data.sent_to[d] = "True"},
                               rescd_00 |-> "API" \in it.called
                                              => all_00(data, up)]]
               /\ recalled' = [recalled EXCEPT ![id] = @ \cup
                                 {d \in it.called :
                                    round[id].data.sent_to[d]
                                        \notin {"absent", "False"}}]
               /\ unset_seen' = IF it.cam = "unset" THEN unset_seen \cup {id}
                                                    ELSE unset_seen
               /\ stopped' = stopped \cup after_exception("sender",
                                                          it.raised)
    /\ UNCHANGED <<camera_id, lane_offset, retry_pc, retry_id, published,
                   merger_vars, receiver_vars,
                   discovery_vars, stage_vars>>

SenderStep == SenderStepWith(FALSE)

SenderStepHealthy == SenderStepWith(TRUE)

\* FailedDataSender.main_loop: a tick starts once camera_id is set (line 660).
RetryWake ==
    /\ retry_pc = "wait"
    /\ camera_id # "None"
    /\ retry_pc' = "fetch"
    /\ UNCHANGED <<camera_id, lane_offset, to_server_q, spool, row_seq, retry_id,
                   published, round, recalled, unset_seen, merger_vars, receiver_vars,
                   discovery_vars, worker_vars>>

\* Lines 663-678: fetch the oldest row, deserialize it, put it on the queue;
\* with no row left the tick ends in the interval wait (line 687).
\* The fetch (sqlite.get) or json.loads can raise; the except at lines
\* 683-684 then logs and the tick ends with the row still in the table.
FetchOutcomes == {"ok", "error"}

on_fetch_error_deletes(row) == [pc |-> "delete", id |-> row[1].id]

\* Lines 683-684: the exception leaves the for loop before the put and the
\* delete; the worker goes to the interval wait.
on_fetch_error(row) == [pc |-> "wait", id |-> 0]

RetryFetchWith(outcomes) ==
    /\ retry_pc = "fetch"
    /\ LET row == fetch_one(spool) IN
         \/ /\ row = <<>>
            /\ retry_pc' = "wait"
            /\ tick_seen' = {}
            /\ fetch_failed' = FALSE
            /\ UNCHANGED <<to_server_q, retry_id>>
         \/ /\ row # <<>>
            /\ "ok" \in outcomes
            /\ to_server_q' = Append(to_server_q, json_loads(row[1].payload))
            /\ retry_id' = row[1].id
            /\ retry_pc' = "delete"
            /\ tick_seen' = tick_seen
                              \cup {json_loads(row[1].payload).unique_key_plain}
            /\ fetch_failed' = FALSE
         \/ /\ row # <<>>
            /\ "error" \in outcomes
            /\ retry_pc' = on_fetch_error(row).pc
            /\ retry_id' = on_fetch_error(row).id
            /\ tick_seen' = {}
            /\ fetch_failed' = TRUE
            /\ UNCHANGED to_server_q
    /\ UNCHANGED <<camera_id, lane_offset, spool, row_seq, published, round,
                   recalled, unset_seen, merger_vars, receiver_vars,
                   discovery_vars, stopped, prep_vars, ocr_vars, replayed,
                   insert_vars, object_vars>>

RetryFetch == RetryFetchWith(FetchOutcomes)

RetryFetchHealthy == RetryFetchWith({"ok"})

\* Line 681: delete the row that was fetched.
RetryDelete ==
    /\ retry_pc = "delete"
    /\ spool' = delete_by_id(spool, retry_id)
    /\ retry_id' = 0
    /\ retry_pc' = "fetch"
    /\ replayed' = replayed \cup {spool[k].payload.unique_key_plain :
                                    k \in {j \in DOMAIN spool :
                                              spool[j].id = retry_id}}
    /\ UNCHANGED <<camera_id, lane_offset, to_server_q, row_seq, published,
                   round, recalled, unset_seen, merger_vars, receiver_vars,
                   discovery_vars, stopped, prep_vars, ocr_vars, tick_seen,
                   fetch_failed, insert_vars, object_vars>>

(***************************************************************************)
(* PART II - merge engine (special_site disabled)                          *)
(***************************************************************************)

\* merger.py line 205: entries older than this many seconds are removed.
AgeLimit == 60
\* merger.py line 287: the largest time difference that still merges.
MergeWindow == 1

\* (lane_no, kncr_cd) keys and turn codes of the records of this model.
Keys == {<<"1", "PCAR">>, <<"2", "PCAR">>}
TurnTypes == {"11", "41"}

\* compare_2k / compare_4k: a bucket per key.  A key that is not in the dict
\* has the empty bucket; the code never leaves an empty list in the dict.
NoBuckets == [key \in Keys |-> <<>>]

\* A record the router put on a merge queue.  A 2K record carries its
\* vehicle id and no plate field; a 4K record carries the plate fields
\* (number, detected flag, plate image file name).  0 and "absent" stand for
\* a key the record does not have.
MergeRecord(id, ltype, key, t, turn) ==
    [ unique_key_plain  |-> id,
      data_type         |-> ltype,
      lane_no           |-> key[1],
      kncr_cd           |-> key[2],
      stln_pasg_unix_tm |-> t,
      turn_type_cd      |-> turn,
      vhcl_dttn_2k_id   |-> IF ltype = "2k" THEN id ELSE 0,
      vhcl_dttn_id      |-> 0,
      vhno_nm           |-> IF ltype = "4k" THEN id ELSE 0,
      vhno_dttn_yn      |-> IF ltype = "4k" THEN "Y" ELSE "absent",
      nopl_img_file_nm  |-> IF ltype = "4k" THEN "plate.jpg" ELSE "absent" ]

abs(x) == IF x < 0 THEN 0 - x ELSE x

key_of(record) == <<record.lane_no, record.kncr_cd>>

\* bisect.bisect_left(a, x, lo, hi)
RECURSIVE bisect_from(_, _, _, _)
bisect_from(a, x, lo, hi) ==
    IF lo >= hi THEN lo
    ELSE LET mid == (lo + hi) \div 2 IN
         IF a[mid + 1] < x THEN bisect_from(a, x, mid + 1, hi)
                           ELSE bisect_from(a, x, lo, mid)

bisect_left(a, x) == bisect_from(a, x, 0, Len(a))

times_of(bucket) == [k \in DOMAIN bucket |-> bucket[k].stln_pasg_unix_tm]

insert_at_end(bucket, record) == Append(bucket, record)

\* Merger._insert_sorted
insert_sorted(bucket, record) ==
    LET index == bisect_left(times_of(bucket), record.stln_pasg_unix_tm)
    IN SubSeq(bucket, 1, index) \o <<record>>
         \o SubSeq(bucket, index + 1, Len(bucket))

\* merger.py lines 115-119: the record of the blocking get goes to its bucket.
insert_record(destination_map, record) ==
    [destination_map EXCEPT ![key_of(record)] = insert_sorted(@, record)]

\* merger.py line 178: _drain_queue drops U-turn records.
is_uturn(record) == record.turn_type_cd = "41"

\* Merger._drain_queue on the records that are in the queue.
RECURSIVE drain_queue(_, _)
drain_queue(data_queue_merge, destination_map) ==
    IF data_queue_merge = <<>> THEN destination_map
    ELSE LET record == Head(data_queue_merge) IN
         drain_queue(Tail(data_queue_merge),
                     IF is_uturn(record) THEN destination_map
                     ELSE insert_record(destination_map, record))

\* Merger._remove_old_data at clock value current_time.
remove_old_data(bucket_map, current_time) ==
    LET cutoff == current_time - AgeLimit IN
    [key \in Keys |->
        LET bucket == bucket_map[key]
            k == bisect_left(times_of(bucket), cutoff)
        IN SubSeq(bucket, k + 1, Len(bucket))]

within_window_wide(t2, t4) == abs(t2 - t4) <= MergeWindow + 1

\* merger.py line 287: the merge condition.
within_window(t2, t4) == abs(t2 - t4) <= MergeWindow

after_match_stay(j) == j

\* merger.py line 322: the 4K pointer after a match.
after_match(j) == j + 1

\* merger.py lines 289-295: the merged record, a copy of the 2K entry with
\* the merge data type, the 2K vehicle id as vehicle id, and the 4K entry's
\* plate image file name and plate number.
build_merged(item_2k, item_4k) ==
    [item_2k EXCEPT !.data_type = "merge",
                    !.vhcl_dttn_id = item_2k.vhcl_dttn_2k_id,
                    !.nopl_img_file_nm = item_4k.nopl_img_file_nm,
                    !.vhno_nm = item_4k.vhno_nm]

skip_2k_always(t2, t4) == TRUE

\* merger.py line 325: the 2K entry is too early for this and every later
\* 4K entry, so only the 2K pointer moves; otherwise the 4K pointer moves.
skip_2k(t2, t4) == t2 < t4 - MergeWindow

\* merger.py lines 279-330: the two-pointer walk over one key's buckets from
\* positions i, j (1-based).  out: the emissions in order, each with the
\* entries it was built from; matched_2k, matched_4k: the matched indices.
RECURSIVE walk(_, _, _, _, _)
walk(data_2k, data_4k, i, j, acc) ==
    IF ~(i <= Len(data_2k) /\ j <= Len(data_4k)) THEN acc
    ELSE LET item_2k == data_2k[i]
             item_4k == data_4k[j]
             t2 == item_2k.stln_pasg_unix_tm
             t4 == item_4k.stln_pasg_unix_tm
         IN IF within_window(t2, t4)
            THEN walk(data_2k, data_4k, i + 1, after_match(j),
                      [out |-> Append(acc.out,
                                      [merged  |-> build_merged(item_2k, item_4k),
                                       item_2k |-> item_2k,
                                       item_4k |-> item_4k]),
                       matched_2k |-> Append(acc.matched_2k, i),
                       matched_4k |-> Append(acc.matched_4k, j)])
            ELSE IF skip_2k(t2, t4)
            THEN walk(data_2k, data_4k, i + 1, j, acc)
            ELSE walk(data_2k, data_4k, i, j + 1, acc)

\* merger.py lines 333-336: "for index in reversed(matched): del data[index]"
RECURSIVE del_reversed(_, _)
del_reversed(data, matched) ==
    IF matched = <<>> THEN data
    ELSE LET index == matched[Len(matched)] IN
         del_reversed(SubSeq(data, 1, index - 1)
                          \o SubSeq(data, index + 1, Len(data)),
                      SubSeq(matched, 1, Len(matched) - 1))

remove_matched_none(data, matched) == data

\* merger.py lines 332-336: the matched entries leave both buckets before
\* _compare returns, so the next pass does not see them.
remove_matched(data, matched) == del_reversed(data, matched)

is_empty_map(bucket_map) == \A key \in Keys : bucket_map[key] = <<>>

\* Merger._compare over the common keys in the given order: the buffers it
\* leaves and the emissions it put on the server queue.
RECURSIVE compare_keys(_, _, _, _)
compare_keys(order, c2, c4, out) ==
    IF order = <<>> THEN [compare_2k |-> c2, compare_4k |-> c4, out |-> out]
    ELSE LET key == Head(order)
             w == walk(c2[key], c4[key], 1, 1,
                       [out |-> <<>>, matched_2k |-> <<>>, matched_4k |-> <<>>])
         IN compare_keys(Tail(order),
                         [c2 EXCEPT ![key] = remove_matched(@, w.matched_2k)],
                         [c4 EXCEPT ![key] = remove_matched(@, w.matched_4k)],
                         out \o w.out)

\* The orders in which "for key in tuple(common_keys)" can visit a set.
KeyOrders(S) ==
    {order \in UNION {[1..n -> S] : n \in {Cardinality(S)}} :
        \A a, b \in DOMAIN order : a # b => order[a] # order[b]}

compare(c2, c4, current_time, order) ==
    IF is_empty_map(c2) \/ is_empty_map(c4)
    THEN [compare_2k |-> c2, compare_4k |-> c4, out |-> <<>>]
    ELSE compare_keys(order, remove_old_data(c2, current_time),
                      remove_old_data(c4, current_time), <<>>)

common_keys(c2, c4, current_time) ==
    IF is_empty_map(c2) \/ is_empty_map(c4) THEN {}
    ELSE {key \in Keys : /\ remove_old_data(c2, current_time)[key] # <<>>
                         /\ remove_old_data(c4, current_time)[key] # <<>>}

\* The router puts a 2K record on to_merge_q_2k.
Publish2K ==
    /\ pub_2k < MaxPub2K
    /\ \E key \in Keys, turn \in TurnTypes, t \in now..(now + ClockSkew) :
         to_merge_q_2k' = Append(to_merge_q_2k,
                                 MergeRecord(pub_2k + 1, "2k", key, t, turn))
    /\ pub_2k' = pub_2k + 1
    /\ UNCHANGED <<worker_vars, discovery_vars, receiver_vars, sender_vars, to_merge_q_4k, compare_2k, compare_4k, now,
                   ticks, pub_4k, last_pass, merged_q>>

\* The router puts a processed 4K record on to_merge_q_4k.
Publish4K ==
    /\ pub_4k < MaxPub4K
    /\ \E key \in Keys, turn \in TurnTypes, t \in now..(now + ClockSkew) :
         to_merge_q_4k' = Append(to_merge_q_4k,
                                 MergeRecord(pub_4k + 1, "4k", key, t, turn))
    /\ pub_4k' = pub_4k + 1
    /\ UNCHANGED <<worker_vars, discovery_vars, receiver_vars, sender_vars, to_merge_q_2k, compare_2k, compare_4k, now,
                   ticks, pub_2k, last_pass, merged_q>>

\* The wall clock advances, by a second or to just past the age limit.
Tick ==
    /\ ticks < MaxTicks
    /\ \E d \in {1, AgeLimit + 1} : now' = now + d
    /\ ticks' = ticks + 1
    /\ UNCHANGED <<worker_vars, discovery_vars, receiver_vars, sender_vars, to_merge_q_2k, to_merge_q_4k, compare_2k,
                   compare_4k, pub_2k, pub_4k, last_pass, merged_q>>

\* Merger.main_loop: one iteration (lines 110-128).
MergerStep ==
    /\ to_merge_q_2k # <<>>
    /\ LET record == Head(to_merge_q_2k)
           c2 == drain_queue(Tail(to_merge_q_2k),
                             insert_record(compare_2k, record))
           c4 == drain_queue(to_merge_q_4k, compare_4k)
       IN \E order \in KeyOrders(common_keys(c2, c4, now)) :
            \E r \in {compare(c2, c4, now, order)} :
               /\ compare_2k' = r.compare_2k
               /\ compare_4k' = r.compare_4k
               /\ last_pass' = r.out
               /\ merged_q' = merged_q \o r.out
    /\ to_merge_q_2k' = <<>>
    /\ to_merge_q_4k' = <<>>
    /\ UNCHANGED <<worker_vars, discovery_vars, receiver_vars, sender_vars, now, ticks, pub_2k, pub_4k>>

(***************************************************************************)
(* PART III - receiver and router                                          *)
(*                                                                         *)
(* A bus payload is modelled by the list of its comma-separated fields     *)
(* (CSV channels), by its text (presence channels) or by the dict it       *)
(* parses to (JSON channels).  A router record is a dict over RouterKeys:  *)
(* "absent" is a key the dict does not have, "None" is Python's None and   *)
(* "int 0"/"int 1" are the Python integers 0 and 1, which are not the      *)
(* strings "0" and "1".                                                    *)
(***************************************************************************)
MaxReceived == 2    \* payloads the receivers take from the bus

\* router.py lines 71-85.
CSV_JSON_MAP_2K ==
    <<"vhcl_dttn_2k_id", "kncr_cd", "lane_no", "turn_type_cd",
      "turn_dttn_unix_tm", "turn_dttn_sped", "stln_pasg_unix_tm",
      "stln_dttn_sped", "vhcl_sect_sped", "frst_obsrvn_unix_tm",
      "vhcl_obsrvn_hr", "img_path_nm", "vhcl_img_file_nm">>

\* A dict and its "_send_to" entry (NONE_LIST: no such entry).
EmptyDict ==
    [f |-> [vhcl_dttn_2k_id     |-> "absent", kncr_cd        |-> "absent",
            lane_no             |-> "absent", turn_type_cd   |-> "absent",
            turn_dttn_unix_tm   |-> "absent", turn_dttn_sped |-> "absent",
            stln_pasg_unix_tm   |-> "absent", stln_dttn_sped |-> "absent",
            vhcl_sect_sped      |-> "absent", vhcl_obsrvn_hr |-> "absent",
            frst_obsrvn_unix_tm |-> "absent", img_path_nm    |-> "absent",
            vhcl_img_file_nm    |-> "absent", data_type      |-> "absent",
            unique_key_plain    |-> "absent", vhno_dttn_yn   |-> "absent",
            vhcl_dttn_id        |-> "absent", spot_camr_id   |-> "absent",
            presence_state      |-> "absent", vhno_nm        |-> "absent",
            vhcl_dttn_4k_id     |-> "absent"],
     send_to |-> NONE_LIST]

\* BuildResult() and the outcome of a build function that raised.
BuildResult(to_server, to_merge) ==
    [raised |-> FALSE, to_server |-> to_server, to_merge |-> to_merge,
     to_ocr |-> <<>>]
BuildRaised ==
    [raised |-> TRUE, to_server |-> <<>>, to_merge |-> <<>>, to_ocr |-> <<>>]

\* dict(zip(CSV_JSON_MAP_2K, fields)): zip stops at the shorter list, so the
\* first Len(fields) keys of the schema are set and the others are missing.
RECURSIVE zip_from(_, _, _)
zip_from(data, fields, i) ==
    IF i > Len(fields) \/ i > Len(CSV_JSON_MAP_2K) THEN data
    ELSE zip_from([data EXCEPT !.f[CSV_JSON_MAP_2K[i]] = fields[i]],
                  fields, i + 1)
zip_2k(fields) == zip_from(EmptyDict, fields, 1)

\* _serialize_2k: the seven fields joined by commas; a missing field raises
\* KeyError inside the try, the except logs and the function returns None.
serialize_2k(data) ==
    LET ks == <<"vhcl_dttn_2k_id", "stln_pasg_unix_tm", "kncr_cd", "lane_no",
                "turn_dttn_unix_tm", "stln_dttn_sped", "vhcl_img_file_nm">>
    IN IF \E i \in DOMAIN ks : data.f[ks[i]] = "absent"
       THEN "None"
       ELSE data.f[ks[1]] \o "," \o data.f[ks[2]] \o "," \o data.f[ks[3]]
              \o "," \o data.f[ks[4]] \o "," \o data.f[ks[5]] \o ","
              \o data.f[ks[6]] \o "," \o data.f[ks[7]]

\* int(s) for the strings of this model (-1: ValueError).
py_int(s) ==
    CASE s = "0" -> 0 [] s = "1" -> 1 [] s = "2" -> 2 [] s = "3" -> 3
      [] s = "4" -> 4 [] OTHER -> -1

\* config["special_site"]["dir"] of the modelled special site.
luwon_dir ==
    [straight |-> [cam_id |-> "CAM_S", lane |-> <<"5", "6">>],
     left     |-> [cam_id |-> "CAM_L", lane |-> <<"7">>],
     right    |-> [cam_id |-> "CAM_R", lane |-> <<"8", "9", "10">>]]

\* dir_map of build_luwon; "raise" is the KeyError of any other turn code.
dir_map(turn) ==
    CASE turn = "11" -> "straight" [] turn = "21" -> "left"
      [] turn = "31" -> "right" [] OTHER -> "raise"

\* The merge-table record ("merge-seed") both branches of _route_2k build.
merge_table_record(redis_data) ==
    [redis_data EXCEPT !.f["data_type"] = "merge",
                       !.f["vhno_dttn_yn"] = "N",
                       !.f["vhcl_dttn_id"] = redis_data.f["vhcl_dttn_2k_id"]]

\* build_luwon.
build_luwon(redis_data) ==
    LET direction == dir_map(redis_data.f["turn_type_cd"])
    IN IF direction = "raise" THEN BuildRaised
       ELSE
        LET cfg == luwon_dir[direction]
            d1 == [redis_data EXCEPT !.f["spot_camr_id"] = cfg.cam_id]
            to_merge_q == d1
            length == Len(cfg.lane)
            lane == py_int(d1.f["lane_no"])
            index == CASE length = 1 -> 0
                       [] length = 2 -> IF lane \in {1, 2} THEN 0 ELSE 1
                       [] length = 3 -> IF lane = 4 THEN 2
                                        ELSE IF lane \in {1, 2} THEN 0 ELSE 1
                       [] OTHER -> lane - 1
        IN IF (length # 1 /\ lane = -1) \/ index + 1 \notin DOMAIN cfg.lane
           THEN BuildRaised
           ELSE
            LET d2 == [d1 EXCEPT !.f["lane_no"] = cfg.lane[index + 1]]
                to_merge_table ==
                    [merge_table_record(d2) EXCEPT !.send_to = {"middleware"}]
            IN BuildResult(<<d2, to_merge_table>>, <<to_merge_q>>)

\* _route_2k.
route_2k(redis_data, ltype, luwon_enabled) ==
    LET d0 == zip_2k(redis_data)
        d1 == [d0 EXCEPT !.f["data_type"] = ltype]
        d2 == [d1 EXCEPT !.f["unique_key_plain"] = serialize_2k(d1)]
    IN IF luwon_enabled THEN build_luwon(d2)
       ELSE IF d2.f["vhcl_dttn_2k_id"] = "absent" THEN BuildRaised
       ELSE BuildResult(<<d2, merge_table_record(d2)>>, <<d2>>)

\* _route_4k: json.loads gave the dict redis_data; the logger call reads
\* redis_data[UK_PLAIN], a KeyError when the document has no such key.
route_4k(redis_data, ltype) ==
    LET d1 == [redis_data EXCEPT !.f["data_type"] = ltype]
    IN IF d1.f["unique_key_plain"] = "absent" THEN BuildRaised
       ELSE BuildResult(<<d1>>, <<d1>>)

\* _route_raw_4k: the first fields of the CSV line under CSV_JSON_MAP_RAW_4K;
\* _serialize_raw_4k returns None when one of its four fields is missing.
route_raw_4k(redis_data, ltype) ==
    LET n == Len(redis_data)
        at(i) == IF i <= n THEN redis_data[i] ELSE "absent"
        d1 == [EmptyDict EXCEPT !.f["vhcl_dttn_4k_id"] = at(1),
                                !.f["stln_pasg_unix_tm"] = at(2),
                                !.f["lane_no"] = at(3),
                                !.f["kncr_cd"] = at(4),
                                !.f["img_path_nm"] = at(5),
                                !.f["data_type"] = ltype]
        d2 == [d1 EXCEPT !.f["unique_key_plain"] =
                 IF n < 4 THEN "None"
                 ELSE at(1) \o "," \o at(2) \o "," \o at(4) \o "," \o at(3)]
    IN [BuildResult(<<>>, <<>>) EXCEPT !.to_ocr = <<d2>>]

\* _route_presence: int(redis_data.strip()) and the payload built from it.
route_presence(redis_data, ltype) ==
    IF redis_data \notin {"0", "1"} THEN BuildRaised
    ELSE LET state == "int " \o redis_data
         IN BuildResult(
              <<[EmptyDict EXCEPT !.f["data_type"] = ltype,
                                  !.f["presence_state"] = state,
                                  !.f["unique_key_plain"] = state]>>,
              <<>>)

\* BUILD_FUNCTION_MAP for the labels of this model.
PresenceLabels == {"pr_vh", "pr_wt", "pr_cr"}
Labels == {"2k", "4k", "4k_R"} \cup PresenceLabels
build_function(redis_data, ltype, luwon_enabled) ==
    CASE ltype = "2k" -> route_2k(redis_data, ltype, luwon_enabled)
      [] ltype = "4k" -> route_4k(redis_data, ltype)
      [] ltype = "4k_R" -> route_raw_4k(redis_data, ltype)
      [] ltype \in PresenceLabels -> route_presence(redis_data, ltype)

\* _set_destination.  d[fk.DATA_TYPE] of a to_server dict without that key
\* is a KeyError, which nothing in route_data catches.
set_destination(res, send_to) ==
    LET tag(d) == [f |-> d.f, send_to |-> send_to]
        keep(d) == d.f["data_type"] = "merge" /\ d.send_to # NONE_LIST
        tag_server(d) == IF keep(d) THEN d ELSE tag(d)
        n == Len(res.to_server)
    IN IF send_to = NONE_LIST THEN res
       ELSE IF \E i \in DOMAIN res.to_server :
                  res.to_server[i].f["data_type"] = "absent"
       THEN BuildRaised
       ELSE [BuildResult(
              CASE n = 0 -> <<>>
                [] n = 1 -> <<tag_server(res.to_server[1])>>
                [] n = 2 -> <<tag_server(res.to_server[1]),
                              tag_server(res.to_server[2])>>,
              IF res.to_merge = <<>> THEN <<>>
              ELSE <<tag(res.to_merge[1])>>)
             EXCEPT !.to_ocr = IF res.to_ocr = <<>> THEN <<>>
                               ELSE <<tag(res.to_ocr[1])>>]

\* A label no channel of BUILD_FUNCTION_MAP has.
UnknownLabel == "4k_x"
ChannelLabels == Labels \cup {UnknownLabel}

build_unguarded(res) == res

\* route_data lines 131-136: an exception of the build function is logged
\* and the empty BuildResult returned.
build_guarded(res) == IF res.raised THEN BuildResult(<<>>, <<>>) ELSE res

\* route_data: the KeyError of an unknown label and an exception of the
\* build function both yield the empty BuildResult.
route_data(redis_data, ltype, send_to, luwon_enabled) ==
    IF ltype \notin Labels THEN BuildResult(<<>>, <<>>)
    ELSE set_destination(
           build_guarded(build_function(redis_data, ltype, luwon_enabled)),
           send_to)

\* The payloads a channel can carry.  A 2K payload has all thirteen fields
\* or only its first three.
Csv2K(id, lane, turn) ==
    <<id, "PCAR", lane, turn, "100", "50", "100", "50", "50", "90", "10",
      "/img", "car.jpg">>
Json4K(uk) ==
    [EmptyDict EXCEPT !.f["unique_key_plain"] = uk, !.f["lane_no"] = "1",
                      !.f["kncr_cd"] = "PCAR", !.f["vhno_nm"] = "12A3456",
                      !.f["vhno_dttn_yn"] = "Y",
                      !.f["stln_pasg_unix_tm"] = "100"]
Payloads(ltype) ==
    CASE ltype = "2k" ->
           {SubSeq(Csv2K("777", lane, turn), 1, n) :
               lane \in {"1", "3"}, turn \in {"11", "41"}, n \in {3, 13}}
      [] ltype = "4k" -> {Json4K("4k-1"), Json4K("absent")}
      [] ltype = "4k_R" ->
           {SubSeq(<<"4K1", "100", "1", "PCAR", "/img4k">>, 1, n) :
               n \in {2, 5}}
      [] ltype = UnknownLabel -> {"0"}
      [] ltype \in PresenceLabels -> {"0", "1", "on"}

well_formed_2k(redis_data) == Len(redis_data) = Len(CSV_JSON_MAP_2K)

\* DataReceiver.main_loop: one iteration of the receiver of a channel whose
\* label is in labels (lines 109-133).  defaultdict(lambda: 'NULL', data)
\* keeps the dict's entries; the merge queue is the one Main gave this
\* receiver.
ReceiverStepOn(labels) ==
    /\ Len(received) < MaxReceived
    /\ \E ltype \in labels, send_to \in SendToChoices :
         \E redis_data \in Payloads(ltype) :
            LET result == route_data(redis_data, ltype, send_to, special_site)
            IN /\ to_server_q' = to_server_q \o result.to_server
               /\ to_merge_q_2k' = IF ltype = "2k"
                                   THEN to_merge_q_2k \o result.to_merge
                                   ELSE to_merge_q_2k
               /\ to_merge_q_4k' = IF ltype = "4k"
                                   THEN to_merge_q_4k \o result.to_merge
                                   ELSE to_merge_q_4k
               /\ received' = Append(received,
                                     [label      |-> ltype,
                                      redis_data |-> redis_data,
                                      send_to    |-> send_to,
                                      to_server  |-> result.to_server,
                                      to_merge   |-> result.to_merge,
                                      to_ocr     |-> result.to_ocr,
                                      raised     |-> result.raised])
    /\ UNCHANGED <<worker_vars, discovery_vars, special_site, kv_bus, sent_log, camera_id,
                   lane_offset, spool, row_seq, retry_pc, retry_id, published, round,
                   recalled, unset_seen, compare_2k, compare_4k, now, ticks,
                   pub_2k, pub_4k, last_pass, merged_q>>

ReceiverStep == ReceiverStepOn(ChannelLabels)

PresenceReceiverStep == ReceiverStepOn(PresenceLabels)

----------------------------------------------------------------------------
\* The delivery engine on a presence record of the router.

\* The sink of self.servers that is the Redis adaptor.
KVSink == "A"

\* str(v)
py_str(v) == CASE v = "int 0" -> "0" [] v = "int 1" -> "1" [] OTHER -> v

\* _hash_data line 512, "self.camera_id + data[UK_PLAIN]" with camera_id a
\* str: a TypeError unless the key is a str too (a missing key reads as the
\* defaultdict's 'NULL').
hash_raises(data) ==
    default_get(data.f["unique_key_plain"]) \in {"None", "int 0", "int 1"}

\* RedisAdaptor._publish: the message put on the channel.
redis_publish(data) ==
    IF data.f["data_type"] \in PresenceLabels
    THEN py_str(data.f["presence_state"])
    ELSE "json.dumps(data)"

\* DataSender.main_loop: one iteration on a presence record (lines 168-206),
\* every sink healthy.  A presence record has no entry in send_function, so
\* it goes through _send_default; the JSON text of the spool row keeps the
\* entries and their types.
SenderStepPresence ==
    /\ "sender" \notin stopped
    /\ to_server_q # <<>>
    /\ Head(to_server_q).f["data_type"] \in PresenceLabels
    /\ LET data == Head(to_server_q)
           allowed_servers == IF data.send_to = NONE_LIST
                              THEN all_server_names ELSE data.send_to
       IN /\ to_server_q' = Tail(to_server_q)
          /\ stopped' = stopped \cup
                after_exception("sender",
                                camera_id # "None" /\ hash_raises(data))
          /\ IF camera_id = "None"
             THEN /\ row_seq < MaxRows
                  /\ spool' = Append(spool, [id |-> row_seq + 1,
                                             payload |-> data])
                  /\ row_seq' = row_seq + 1
                  /\ kv_bus' = kv_bus
                  /\ sent_log' = Append(sent_log,
                                        [data |-> data, did |-> "spooled"])
             ELSE IF hash_raises(data)
             THEN /\ sent_log' = Append(sent_log,
                                        [data |-> data, did |-> "raised"])
                  /\ UNCHANGED <<spool, row_seq, kv_bus>>
             ELSE /\ kv_bus' = IF KVSink \in allowed_servers
                               THEN Append(kv_bus, redis_publish(data))
                               ELSE kv_bus
                  /\ sent_log' = Append(sent_log,
                                        [data |-> data, did |-> "sent"])
                  /\ UNCHANGED <<spool, row_seq>>
    /\ UNCHANGED <<special_site, received, camera_id, lane_offset, retry_pc,
                   retry_id, published, round, recalled, unset_seen,
                   merger_vars, discovery_vars, stage_vars>>

----------------------------------------------------------------------------
\* Camera-id discovery: the two background threads that look the camera id
\* up and call DataSender.set_camera_id.  Each tests "DataSender.camera_id
\* is None", then makes its network call, then sets the value; only the
\* assignment itself is under _cid_lock.

\* The camera ids the edge-info service and the intersection table can
\* name for this edge.
CameraIds == {"CAM01", "CAM02"}

discovery_rest ==
    <<to_server_q, spool, row_seq, retry_pc, retry_id, published, round,
      recalled, unset_seen, merger_vars, receiver_vars, worker_vars>>

\* gRPCAdaptor._retry_loop, Java mode, line 333: the loop test, and when
\* camera_id is still None the getEdgeInfo call of line 336, which returns a
\* camera id or raises ("fail": the except branch sleeps and retries).
RpcCall ==
    /\ rpc_pc = "check"
    /\ IF camera_id = "None"
       THEN /\ rpc_pc' = "called"
            /\ rpc_cid' \in CameraIds \cup {"fail"}
       ELSE /\ rpc_pc' = "done"
            /\ rpc_cid' = rpc_cid
    /\ UNCHANGED <<camera_id, lane_offset, volt_pc, volt_cid, volt_connected,
                   discovery_rest>>

\* Line 343: DataSender.set_camera_id(cid), or back to the loop test after a
\* failed call.
RpcSetCamera ==
    /\ rpc_pc = "called"
    /\ IF rpc_cid = "fail"
       THEN /\ rpc_pc' = "check"
            /\ camera_id' = camera_id
       ELSE /\ rpc_pc' = "lane"
            /\ camera_id' = rpc_cid
    /\ UNCHANGED <<lane_offset, rpc_cid, volt_pc, volt_cid, volt_connected,
                   discovery_rest>>

\* Line 344: DataSender.set_lane_offset(lane_offset), then the loop test.
RpcSetLane ==
    /\ rpc_pc = "lane"
    /\ lane_offset' = "offset"
    /\ rpc_pc' = "check"
    /\ UNCHANGED <<camera_id, rpc_cid, volt_pc, volt_cid, volt_connected,
                   discovery_rest>>

\* VoltDBAdaptor._retry_loop lines 286-313: the loop test, the connection
\* attempt, the test of line 307 and, when camera_id is still None, the
\* intersection query, which returns a camera id, or no row, or raises
\* ("fail").
VoltQuery ==
    /\ volt_pc = "check"
    /\ IF volt_connected /\ camera_id # "None"
       THEN /\ volt_pc' = "done"
            /\ UNCHANGED <<volt_cid, volt_connected>>
       ELSE /\ volt_connected' \in {volt_connected, TRUE}
            /\ volt_pc' = "queried"
            /\ IF camera_id = "None"
               THEN volt_cid' \in CameraIds \cup {"fail"}
               ELSE volt_cid' = "fail"
    /\ UNCHANGED <<camera_id, lane_offset, rpc_pc, rpc_cid, discovery_rest>>

\* Line 317: DataSender.set_camera_id(camera_id) when the query gave one.
VoltSetCamera ==
    /\ volt_pc = "queried"
    /\ camera_id' = IF volt_cid = "fail" THEN camera_id ELSE volt_cid
    /\ volt_pc' = "lane"
    /\ UNCHANGED <<lane_offset, rpc_pc, rpc_cid, volt_cid, volt_connected,
                   discovery_rest>>

\* Lines 329-343: _get_lane_info sets the lane offset when it is unset and
\* the camera id is known (or the lookup fails), then the loop test.
VoltSetLane ==
    /\ volt_pc = "lane"
    /\ IF lane_offset = "None" /\ camera_id # "None"
       THEN lane_offset' \in {"None", "offset"}
       ELSE lane_offset' = lane_offset
    /\ volt_pc' = "check"
    /\ UNCHANGED <<camera_id, rpc_pc, rpc_cid, volt_cid, volt_connected,
                   discovery_rest>>

\* A call of gRPCAdaptor.insert: the adaptor's mode, whether make_request
\* builds the request, and what the remote does on each of the attempts
\* ("200": it answers with status_code 200, "500": it answers with another
\* status, "raise": the stub raises grpc.RpcError).
MaxAttempts == 3
GrpcModes == {"sharp", "java"}
RemoteOutcomes == {"200", "500", "raise"}
GrpcCalls ==
    [mode : GrpcModes, make_ok : BOOLEAN,
     remote : [1..MaxAttempts -> RemoteOutcomes]]

NoCall == [mode |-> "java", make_ok |-> TRUE,
           remote |-> [i \in 1..MaxAttempts |-> "200"]]

Pending == [ret |-> "pending", calls |-> 0, acked |-> FALSE]

InitInsert ==
    /\ grpc_call = NoCall
    /\ grpc_result = Pending

\* No object has been created and no queue holds a reference.
EmptyMem == [dicts |-> <<>>, lists |-> <<>>]

NoneHeld ==
    [n |-> 0, to_server_q |-> <<>>, to_merge_q |-> <<>>, to_ocr_q |-> <<>>,
     compare |-> <<>>, prepared |-> <<>>, merged |-> <<>>]

\* Every worker thread is started by Main.run and is running.
InitStages ==
    /\ stopped = {}
    /\ prep_in = <<>>
    /\ prep_log = <<>>
    /\ ocr_log = <<>>
    /\ plate_log = <<>>
    /\ tick_seen = {}
    /\ replayed = {}
    /\ fetch_failed = FALSE
    /\ mem = EmptyMem
    /\ held = NoneHeld

InitWorkers == InitStages /\ InitInsert

InitDiscovery ==
    /\ rpc_pc = "check"
    /\ rpc_cid = "fail"
    /\ volt_pc = "check"
    /\ volt_cid = "fail"
    /\ volt_connected = FALSE

InitReceiver ==
    /\ special_site = FALSE
    /\ received = <<>>
    /\ kv_bus = <<>>
    /\ sent_log = <<>>

InitSender ==
    /\ camera_id = "None"
    /\ lane_offset = "None"
    /\ to_server_q = <<>>
    /\ spool = <<>>
    /\ row_seq = 0
    /\ retry_pc = "wait"
    /\ retry_id = 0
    /\ published = 0
    /\ round = [id \in RecordIds |-> RoundNone(id)]
    /\ recalled = [id \in RecordIds |-> {}]
    /\ unset_seen = {}

InitMerger ==
    /\ to_merge_q_2k = <<>>
    /\ to_merge_q_4k = <<>>
    /\ compare_2k = NoBuckets
    /\ compare_4k = NoBuckets
    /\ now = 0
    /\ ticks = 0
    /\ pub_2k = 0
    /\ pub_4k = 0
    /\ last_pass = <<>>
    /\ merged_q = <<>>

Init ==
    InitSender /\ InitMerger /\ InitReceiver /\ InitDiscovery /\ InitWorkers

NextSender ==
    \/ Publish
    \/ set_camera_id
    \/ set_lane_offset
    \/ SenderStep
    \/ RetryWake
    \/ RetryFetch
    \/ RetryDelete

SpecSender == Init /\ [][NextSender]_vars

\* The delivery engine when no sink and no upload ever fails, with every
\* thread scheduled fairly.
NextHealthy ==
    \/ Publish
    \/ set_camera_id
    \/ set_lane_offset
    \/ SenderStepHealthy
    \/ RetryWake
    \/ RetryFetchHealthy
    \/ RetryDelete

NextMerger ==
    \/ Publish2K
    \/ Publish4K
    \/ Tick
    \/ MergerStep

SpecMerger == Init /\ [][NextMerger]_vars

\* The merge engine while the clock stands still, the merger thread
\* scheduled fairly.
NextMergerFair ==
    \/ Publish2K
    \/ Publish4K
    \/ MergerStep

SpecMergerFair ==
    /\ Init
    /\ [][NextMergerFair]_vars
    /\ WF_vars(MergerStep)

\* The receivers alone, at a site with or without the special-site remap.
NextReceiver ==
    \/ ReceiverStep

InitAnySite ==
    /\ InitSender /\ InitMerger /\ InitDiscovery /\ InitWorkers
    /\ received = <<>> /\ kv_bus = <<>> /\ sent_log = <<>>
    /\ special_site \in BOOLEAN

SpecReceiver == InitAnySite /\ [][NextReceiver]_vars

\* The presence channels and the delivery engine at a site whose camera id
\* is configured (a server of type "manual": Main.__init__ sets camera_id
\* before any thread starts), every thread scheduled fairly.
InitPresence ==
    /\ InitMerger /\ InitReceiver /\ InitDiscovery /\ InitWorkers
    /\ camera_id = "CAM01"
    /\ lane_offset = "None"
    /\ to_server_q = <<>>
    /\ spool = <<>>
    /\ row_seq = 0
    /\ retry_pc = "wait"
    /\ retry_id = 0
    /\ published = 0
    /\ round = [id \in RecordIds |-> RoundNone(id)]
    /\ recalled = [id \in RecordIds |-> {}]
    /\ unset_seen = {}

\* The two discovery threads next to the presence channels and the delivery
\* engine, at a site that has both a gRPC (Java mode) and a VoltDB server.
NextDiscovery ==
    \/ RpcCall
    \/ RpcSetCamera
    \/ RpcSetLane
    \/ VoltQuery
    \/ VoltSetCamera
    \/ VoltSetLane
    \/ PresenceReceiverStep
    \/ SenderStepPresence

SpecDiscovery == Init /\ [][NextDiscovery]_vars

NextPresence ==
    \/ PresenceReceiverStep
    \/ SenderStepPresence

SpecPresence ==
    /\ InitPresence
    /\ [][NextPresence]_vars
    /\ WF_vars(SenderStepPresence)

SpecHealthy ==
    /\ Init
    /\ [][NextHealthy]_vars
    /\ WF_vars(set_camera_id)
    /\ WF_vars(set_lane_offset)
    /\ WF_vars(SenderStepHealthy)
    /\ WF_vars(RetryWake)
    /\ WF_vars(RetryFetchHealthy)
    /\ WF_vars(RetryDelete)

(***************************************************************************)
(* PROPERTIES                                                              *)
(***************************************************************************)

\* The destinations a record is permitted to go to.
permitted(id) == allowed_of(round[id].data)

\* The record has an image upload (sender.py: _send_2k, _send_raw_4k).
has_upload(id) == round[id].data.data_type \in {"2k", "4k_R"}

Delivered(id) ==
    /\ round[id].cam = "known"
    /\ \A d \in permitted(id) : round[id].data.sent_to[d] = "True"
    /\ has_upload(id) => round[id].data.sent_to["API"] = "True"

NoRow(id) ==
    \A k \in DOMAIN spool : spool[k].payload.unique_key_plain # id

\* C1 - at-least-once: when the sender has finished the iteration of a
\* record it dequeued while camera_id was known, every permitted sink has
\* sent_to true or a spool row holding the record was written, whatever the
\* inserts and uploads returned or raised.
AtLeastOnce ==
    \A id \in RecordIds :
        round[id].cam = "known" =>
            \/ \A d \in permitted(id) : round[id].data.sent_to[d] = "True"
            \/ round[id].row # <<>>

\* C2 - eventual delivery: when no call fails and every thread is scheduled
\* fairly, every record that reached to_server_q is eventually delivered to
\* every permitted destination (and the image server) with no spool row left.
EventualDelivery ==
    \A id \in RecordIds :
        (published >= id) ~> (Delivered(id) /\ NoRow(id))

\* C3 - spool recoverability: a record whose send round left a destination
\* false has a spool row, and deserializing the row gives the record back
\* with the same keys and values.
SpoolRecoverable ==
    \A id \in RecordIds :
        ( /\ round[id].cam = "known"
          /\ ~round[id].raised
          /\ \E d \in Dests : round[id].data.sent_to[d] = "False" )
        => /\ round[id].row # <<>>
           /\ json_loads(round[id].row[1]) = round[id].data

\* C4 - destination monotonicity: sent_to[d] of a record changes only from
\* false (or not yet present) to true, and never to any other value.
SentToMonotone ==
    [][\A id \in RecordIds : \A d \in Dests :
          LET a == round[id].data.sent_to[d]
              b == round'[id].data.sent_to[d]
          IN \/ a = b
             \/ a = "absent" /\ b \in {"False", "True"}
             \/ a = "False" /\ b = "True"]_vars

\* C5 - a replay calls only the destinations that had failed: no sink and
\* no upload is called for a record whose sent_to for it was already set to
\* something other than false at the end of the record's previous round.
ReplayOnlyFailed ==
    \A id \in RecordIds : recalled[id] = {}

\* A record came back from the spool with one sink acknowledged and another
\* one failed, and the round skipped the first and called the second.
ReplayOnlyFailedWitness ==
    \E id \in RecordIds :
        /\ round[id].acked \cap all_server_names # {}
        /\ round[id].called \cap all_server_names # {}
        /\ round[id].acked \cap round[id].called = {}

\* C6 - while camera_id is unset the sender writes every record it dequeues
\* to the spool without insert, upload or prepare, and the retry worker is
\* idle.
UnsetGoesToSpool ==
    /\ \A id \in RecordIds :
          round[id].cam = "unset" =>
              /\ round[id].row # <<>>
              /\ round[id].called = {}
              /\ ~round[id].prepared_ran
    /\ camera_id = "None" => (retry_pc = "wait" /\ retry_id = 0)

\* C7 - camera-id late arrival: a record the sender met while camera_id was
\* unknown is eventually out of the spool, prepared and delivered.
LateCameraId ==
    \A id \in RecordIds :
        (id \in unset_seen) ~>
            (Delivered(id) /\ NoRow(id) /\ round[id].data.prepared = "True")

\* C8 - merge window: every merged record was built from a 2K entry and a 4K
\* entry of the same (lane_no, kncr_cd) key whose stop-line times differ by at
\* most one second.
MergeWindowHolds ==
    \A k \in DOMAIN merged_q :
        LET e == merged_q[k] IN
        /\ e.item_2k.data_type = "2k"
        /\ e.item_4k.data_type = "4k"
        /\ key_of(e.item_2k) = key_of(e.item_4k)
        /\ abs(e.item_2k.stln_pasg_unix_tm - e.item_4k.stln_pasg_unix_tm) <= 1

\* A merge of two entries exactly one second apart was emitted.
MergeWindowWitness ==
    \E k \in DOMAIN merged_q :
        abs(merged_q[k].item_2k.stln_pasg_unix_tm
              - merged_q[k].item_4k.stln_pasg_unix_tm) = 1

\* C9 - merge uniqueness: within one matching pass no 2K entry and no 4K
\* entry takes part in two emissions.
MergeUnique ==
    \A a, b \in DOMAIN last_pass :
        a # b =>
            /\ last_pass[a].item_2k.unique_key_plain
                  # last_pass[b].item_2k.unique_key_plain
            /\ last_pass[a].item_4k.unique_key_plain
                  # last_pass[b].item_4k.unique_key_plain

\* A pass merged a 4K entry and left a second 2K entry of the same key that
\* was within the window of that 4K entry.
MergeUniqueWitness ==
    \E k \in DOMAIN last_pass :
        LET e == last_pass[k]
            rest == compare_2k[key_of(e.item_4k)]
        IN \E n \in DOMAIN rest :
              abs(rest[n].stln_pasg_unix_tm - e.item_4k.stln_pasg_unix_tm) <= 1

\* C10 - U-turn exclusion: no record with turn_type_cd 41 is in compare_2k
\* or compare_4k.
NoUTurnBuffered ==
    \A key \in Keys :
        /\ \A k \in DOMAIN compare_2k[key] :
              compare_2k[key][k].turn_type_cd # "41"
        /\ \A k \in DOMAIN compare_4k[key] :
              compare_4k[key][k].turn_type_cd # "41"

\* No entry of either merger buffer is older than now - 60 seconds.
AgedOut ==
    \A key \in Keys :
        /\ \A k \in DOMAIN compare_2k[key] :
              compare_2k[key][k].stln_pasg_unix_tm >= now - 60
        /\ \A k \in DOMAIN compare_4k[key] :
              compare_4k[key][k].stln_pasg_unix_tm >= now - 60

\* C11 - aging bound: after every iteration of the merger's main loop (each
\* one runs the compare step) no entry older than now - 60 seconds remains in
\* compare_2k or compare_4k, also when only one stream has buffered entries.
AgingBound ==
    [][(to_merge_q_2k # <<>> /\ to_merge_q_2k' = <<>>) => AgedOut']_vars

\* C12 - per-key output order: for each (lane_no, kncr_cd) key the merged
\* records the merger has put on the server queue, over all passes, are in
\* nondecreasing stop-line time.
PerKeyOutputOrder ==
    \A a, b \in DOMAIN merged_q :
        ( /\ a < b
          /\ key_of(merged_q[a].merged) = key_of(merged_q[b].merged) )
        => merged_q[a].merged.stln_pasg_unix_tm
              <= merged_q[b].merged.stln_pasg_unix_tm

\* The 2K record i is buffered and the 4K record j is published (queued or
\* buffered), neither is a U-turn, and they have the same key and stop-line
\* times within the merge window.
PendingPair(i, j) ==
    \E key \in Keys :
        \E a \in DOMAIN compare_2k[key] :
            LET r2 == compare_2k[key][a]
                cand == {to_merge_q_4k[k] : k \in DOMAIN to_merge_q_4k}
                           \cup {compare_4k[key][k] : k \in DOMAIN compare_4k[key]}
            IN /\ r2.unique_key_plain = i
               /\ r2.turn_type_cd # "41"
               /\ \E r4 \in cand :
                     /\ r4.unique_key_plain = j
                     /\ r4.turn_type_cd # "41"
                     /\ key_of(r4) = key
                     /\ abs(r2.stln_pasg_unix_tm - r4.stln_pasg_unix_tm) <= 1

MergedOne(i, j) ==
    \E k \in DOMAIN merged_q :
        \/ merged_q[k].item_2k.unique_key_plain = i
        \/ merged_q[k].item_4k.unique_key_plain = j

\* C13 - happy-merge liveness: when a 2K record and a 4K record of the same
\* key within one second of each other are both published, the merger
\* eventually emits a merged record for them, whichever arrived first and
\* without any further record being published.
HappyMerge ==
    \A i \in 1..MaxPub2K : \A j \in 1..MaxPub4K :
        PendingPair(i, j) ~> MergedOne(i, j)

\* C14 - merged record content: every merged record has data_type merge,
\* the 2K record's vehicle id as vehicle id, the 2K record's other fields,
\* and the plate number, plate-detected flag and plate image file name of
\* the matched 4K record.
MergedContent ==
    \A k \in DOMAIN merged_q :
        LET e == merged_q[k] IN
        /\ e.merged.data_type = "merge"
        /\ e.merged.vhcl_dttn_id = e.item_2k.vhcl_dttn_2k_id
        /\ e.merged.lane_no = e.item_2k.lane_no
        /\ e.merged.kncr_cd = e.item_2k.kncr_cd
        /\ e.merged.stln_pasg_unix_tm = e.item_2k.stln_pasg_unix_tm
        /\ e.merged.turn_type_cd = e.item_2k.turn_type_cd
        /\ e.merged.vhno_nm = e.item_4k.vhno_nm
        /\ e.merged.vhno_dttn_yn = e.item_4k.vhno_dttn_yn
        /\ e.merged.nopl_img_file_nm = e.item_4k.nopl_img_file_nm

----------------------------------------------------------------------------
\* What one receiver iteration queued for a 2K payload is the plain record
\* followed by its merge-seed, and one copy for the 2K merge queue.
seeded(e) ==
    /\ Len(e.to_server) = 2
    /\ e.to_server[1].f["data_type"] = "2k"
    /\ e.to_server[1].f["vhcl_dttn_2k_id"] = e.redis_data[1]
    /\ e.to_server[2].f["data_type"] = "merge"
    /\ e.to_server[2].f["vhno_dttn_yn"] = "N"
    /\ e.to_server[2].f["vhcl_dttn_id"] = e.redis_data[1]
    /\ Len(e.to_merge) = 1

\* C15: every well-formed vehicle_2k payload makes the receiver put exactly
\* two records on the server queue, the plain 2K record and then a
\* merge-seed (data_type merge, plate_detected N, car_id = car_id_2k),
\* whether or not a 4K record arrives, and exactly one copy on the 2K merge
\* queue.
MergeSeed ==
    \A k \in DOMAIN received :
        (received[k].label = "2k" /\ well_formed_2k(received[k].redis_data))
            => seeded(received[k])

\* A record on the server queue has data_type set and a non-empty
\* unique_key_plain.
has_identity(data) ==
    /\ data.f["data_type"] \notin {"absent", "None", ""}
    /\ data.f["unique_key_plain"] \notin {"absent", "None", ""}

\* C16: every record put on the server queue has data_type set and a
\* non-empty unique_key_plain, whatever payload the bus delivered, CSV
\* payloads with fewer fields than the positional schema included.
RecordIdentity ==
    \A i \in DOMAIN to_server_q : has_identity(to_server_q[i])

\* The last iteration on record id made the image upload (and no sink call
\* raised afterwards).
uploaded_in_round(id) ==
    /\ round[id].cam = "known"
    /\ "API" \in round[id].called
    /\ ~round[id].raised

\* C17: for every image-bearing send variant, sent_to[API] becomes true
\* exactly when the upload was answered with the success code "00" (raw 4K:
\* both uploads); any other response code, a timeout or a request error
\* counts as failed, leaves sent_to[API] false and makes the iteration spool
\* the record.
UploadSuccessOnly00 ==
    \A id \in RecordIds :
        uploaded_in_round(id) =>
            /\ round[id].data.sent_to["API"] = "True" <=> round[id].rescd_00
            /\ ~round[id].rescd_00 =>
                  /\ round[id].data.sent_to["API"] = "False"
                  /\ round[id].need

\* The last iteration on record id reached the sinks: it called the insert
\* of at least one of them.
reached_sinks(id) ==
    /\ round[id].cam = "known"
    /\ round[id].called \cap all_server_names # {}

\* C18: within one send round the failure of one sink (it returns false, is
\* not connected, has no mapping for the data_type, or raises) does not
\* keep the insert from being attempted on every other permitted sink, and
\* the sent_to values recorded before the round are kept.
SinkIndependence ==
    \A id \in RecordIds :
        reached_sinks(id) =>
            /\ \A n \in allowed_of(round[id].data) \cap all_server_names :
                  n \in round[id].acked \/ n \in round[id].called
            /\ \A d \in round[id].acked :
                  round[id].data.sent_to[d] = "True"

\* Receiver iteration k took the digit s from a presence channel and queued
\* exactly one record for it: data_type the channel's label, presence_state
\* and unique_key_plain that digit.
presence_queued(k, s) ==
    /\ k \in DOMAIN received
    /\ received[k].label \in PresenceLabels
    /\ received[k].redis_data = s
    /\ Len(received[k].to_server) = 1
    /\ received[k].to_server[1].f["data_type"] = received[k].label
    /\ py_str(received[k].to_server[1].f["presence_state"]) = s
    /\ py_str(received[k].to_server[1].f["unique_key_plain"]) = s

\* The Redis sink has published n or more messages that are the literal s.
published_literal(s, n) ==
    Cardinality({m \in DOMAIN kv_bus : kv_bus[m] = s}) >= n

\* Of the first k receiver iterations, those that took the digit s from a
\* presence channel.
digits_taken(k, s) ==
    Cardinality({j \in 1..k : /\ received[j].label \in PresenceLabels
                              /\ received[j].redis_data = s})

\* C19: publishing "1" (or "0") on a presence channel yields exactly one
\* server-queue record with data_type the presence label and presence_state
\* and unique_key_plain that digit, and with the camera id known the sender
\* delivers it to the Redis sink, which publishes the literal string "1"
\* (or "0"), not a JSON document.
PresencePassThrough ==
    \A s \in {"0", "1"} : \A k \in 1..MaxReceived :
        (/\ k \in DOMAIN received
         /\ received[k].label \in PresenceLabels
         /\ received[k].redis_data = s)
            ~> (/\ presence_queued(k, s)
                /\ published_literal(s, digits_taken(k, s)))

\* C20: the camera id is set once: under any interleaving of the gRPC
\* discovery thread, the VoltDB discovery thread and the sender it goes from
\* unset to a value at most once and never changes afterwards.
CameraIdSetOnce ==
    [][camera_id # "None" => camera_id' = camera_id]_vars

----------------------------------------------------------------------------
(***************************************************************************)
(* Part IV.  The sender's prepare step, field by field.                    *)
(***************************************************************************)

MaxPrepared == 3

\* A record of to_server_q: a defaultdict(lambda: 'NULL').  "absent" is a
\* key the dict does not hold; get() of it is None, [] of it is 'NULL'.
NoFields ==
    [ data_type |-> "absent", unique_key_plain |-> "absent",
      unique_key |-> "absent", spot_camr_id |-> "absent",
      lane_no |-> "absent", img_path_nm |-> "absent",
      vhcl_img_file_nm |-> "absent", nopl_img_file_nm |-> "absent",
      img_file_nm |-> "absent", image_file |-> "absent",
      plate_image_data_4k |-> "absent", vhno_nm |-> "absent",
      object_id |-> "absent", vhcl_dttn_2k_id |-> "absent",
      vhcl_dttn_4k_id |-> "absent", vhcl_dttn_id |-> "absent",
      prepared |-> "absent" ]

\* data[key] of a defaultdict(lambda: 'NULL').
getitem(v) == IF v = "absent" THEN "NULL" ELSE v

\* The values of this model that are Python str objects.
is_str(v) == v \notin {"None", "int 0", "int 1"}

hash_sha256(s) == "sha256(" \o s \o ")"
hash_md5(s) == "md5(" \o s \o ")"

\* name.split("/")[-1][:-4].split("_")[-1] for the file names of this model:
\* the text between the last underscore and the four-character extension.
image_created_time(name) ==
    CASE name = "car_100.jpg" -> "100"
      [] name = "4K1_PCAR_1_100.jpg" -> "100"
      [] name = "q_100.jpg" -> "100"
      [] name = "abn_100.jpg" -> "100"
      [] name = "N_IMAGE" -> "I"
      [] OTHER -> ""

\* name.split("/")[-1][:-4]
image_name_of(name) ==
    CASE name = "car_100.jpg" -> "car_100"
      [] name = "4K1_PCAR_1_100.jpg" -> "4K1_PCAR_1_100"
      [] name = "q_100.jpg" -> "q_100"
      [] name = "abn_100.jpg" -> "abn_100"
      [] name = "N_IMAGE" -> "N_I"
      [] OTHER -> ""

\* int(text) succeeds.
int_ok(text) == text \in {"0", "1", "2", "3", "4", "100"}

\* generate_time_path: minute directories for image types 10 and 30, day
\* directories for the others.
generate_time_path(unix_time, image_type) ==
    IF image_type \in {10, 30} THEN "Y/M/D/h/m@" \o unix_time
                               ELSE "Y/M/D@" \o unix_time

\* config["image_remote"][rp]
image_remote(rp) == "/remote/" \o rp

\* str(int(lane) + offset) for the lanes and the offset of this model.
lane_plus(lane, offset) ==
    CASE lane = "1" -> "4" [] lane = "2" -> "5" [] OTHER -> "6"

PrepOffsets == {"None", "3"}

\* DataSender._hash_data.
hash_data_raises(data, cam) == ~is_str(getitem(data.unique_key_plain))
hash_data(data, cam) ==
    LET uk == hash_sha256(cam \o getitem(data.unique_key_plain))
        d1 == [data EXCEPT !.unique_key_plain = getitem(@),
                           !.unique_key = uk]
    IN CASE data.data_type = "2k" ->
              [d1 EXCEPT !.object_id = getitem(data.vhcl_dttn_2k_id),
                         !.vhcl_dttn_2k_id = uk]
         [] data.data_type = "merge" ->
              [d1 EXCEPT !.object_id = getitem(data.vhcl_dttn_id),
                         !.vhcl_dttn_id = uk]
         [] data.data_type = "4k_R" ->
              [d1 EXCEPT !.object_id = getitem(data.vhcl_dttn_4k_id),
                         !.vhcl_dttn_4k_id = uk]
         [] OTHER -> d1

VehicleTypes == {"2k", "4k_R", "merge"}

\* DataSender._get_remote_dir on a record whose image file names already
\* carry the local directory; orig is the file name before that.  The
\* result is the record with its file names rewritten and the directory the
\* function returns ("raise": int() of the time text failed).
get_remote_dir(data, cam, orig) ==
    LET dtype == data.data_type
        local == IF dtype \in VehicleTypes THEN data.vhcl_img_file_nm
                                           ELSE data.img_file_nm
        d1 == [data EXCEPT !.image_file = local]
        image_type == CASE dtype \in VehicleTypes -> 10
                        [] dtype = "abn_start" -> 30
                        [] OTHER -> 20
        rp == CASE dtype \in {"2k", "merge"} -> "car_image_path_2k"
                [] dtype = "4k_R" -> "car_image_path_4k"
                [] dtype = "abn_start" -> "abnormal_image_path"
                [] OTHER -> "queue_image_path"
        d2 == CASE dtype \in {"2k", "merge"} ->
                     [d1 EXCEPT !.vhcl_img_file_nm =
                                   "10_" \o hash_md5(local) \o ".jpg"]
                [] dtype = "4k_R" ->
                     [d1 EXCEPT !.vhcl_img_file_nm =
                                   "10_" \o hash_md5(local) \o ".jpg",
                                !.nopl_img_file_nm =
                                   IF data.plate_image_data_4k # "absent"
                                   THEN "20_" \o hash_md5(getitem(data.vhno_nm))
                                              \o ".jpg"
                                   ELSE "N_PLATE",
                                !.vhno_nm =
                                   IF data.plate_image_data_4k # "absent"
                                   THEN getitem(@) ELSE @]
                [] dtype = "abn_start" ->
                     [d1 EXCEPT !.img_file_nm =
                                   "30_" \o hash_md5(local) \o ".jpg"]
                [] OTHER ->
                     [d1 EXCEPT !.img_file_nm = image_name_of(orig) \o ".jpg"]
        t == image_created_time(orig)
    IN [data |-> d2,
        dir  |-> IF int_ok(t)
                 THEN image_remote(rp) \o "/" \o cam \o "/"
                        \o generate_time_path(t, image_type)
                 ELSE "raise"]

\* DataSender._build_before_insert with camera_id cam and lane_offset
\* offset.  raised: an exception left the function; data is then the record
\* as the statements before it left it.
prepare(data, cam, offset) ==
    LET dtype == data.data_type
        d1 == IF data.spot_camr_id = "absent"
              THEN [data EXCEPT !.spot_camr_id = cam] ELSE data
        lane_raises == dtype = "4k_R"
                         /\ (~int_ok(getitem(d1.lane_no)) \/ offset = "None")
        d2 == IF dtype = "4k_R" /\ ~lane_raises
              THEN [d1 EXCEPT !.lane_no = lane_plus(@, offset)]
              ELSE [d1 EXCEPT !.lane_no = IF dtype = "4k_R" THEN getitem(@)
                                                           ELSE @]
        d3 == hash_data(d2, cam)
        orig == IF dtype \in VehicleTypes THEN getitem(d3.vhcl_img_file_nm)
                                          ELSE getitem(d3.img_file_nm)
        path == getitem(d3.img_path_nm)
        d4 == IF dtype \in VehicleTypes
              THEN [d3 EXCEPT !.img_path_nm = path,
                              !.vhcl_img_file_nm = path \o "/" \o orig,
                              !.nopl_img_file_nm =
                                 IF dtype = "4k_R" THEN path \o getitem(@)
                                                   ELSE @]
              ELSE [d3 EXCEPT !.img_path_nm = path,
                              !.img_file_nm = path \o "/" \o orig]
        rd == get_remote_dir(d4, cam, orig)
    IN CASE lane_raises -> [raised |-> TRUE, data |-> d2]
         [] hash_data_raises(d2, cam) ->
              [raised |-> TRUE,
               data |-> [d2 EXCEPT !.unique_key_plain = getitem(@)]]
         [] dtype \notin ImageTypes ->
              [raised |-> FALSE, data |-> [d3 EXCEPT !.prepared = "True"]]
         [] rd.dir = "raise" -> [raised |-> TRUE, data |-> rd.data]
         [] OTHER ->
              [raised |-> FALSE,
               data |-> [rd.data EXCEPT !.img_path_nm = rd.dir,
                                        !.prepared = "True"]]

\* The records the router, the merger and the plate reader put on
\* to_server_q.
Vehicle2K ==
    [NoFields EXCEPT !.data_type = "2k",
                     !.unique_key_plain = "777,100,PCAR,1,50,50,car_100.jpg",
                     !.vhcl_dttn_2k_id = "777", !.lane_no = "1",
                     !.img_path_nm = "/img",
                     !.vhcl_img_file_nm = "car_100.jpg"]
\* _route_2k's merge-table record, and the merger's record of a pair.
MergeSeedRecord ==
    [Vehicle2K EXCEPT !.data_type = "merge", !.vhcl_dttn_id = "777"]
MergedRecord ==
    [MergeSeedRecord EXCEPT !.vhcl_dttn_4k_id = "4K1", !.vhno_nm = "12A3456"]
\* LpDetector.main_loop with a best image (plate: whether the plate image
\* was attached) and without candidate images.
Raw4K(plate) ==
    [NoFields EXCEPT !.data_type = "4k_R",
                     !.unique_key_plain = "4K1,100,PCAR,1",
                     !.vhcl_dttn_4k_id = "4K1", !.lane_no = "1",
                     !.img_path_nm = "/img4k",
                     !.vhcl_img_file_nm = "4K1_PCAR_1_100.jpg",
                     !.nopl_img_file_nm = "4K1.jpg",
                     !.vhno_nm = IF plate THEN "12A3456" ELSE "N_PLATE",
                     !.plate_image_data_4k =
                        IF plate THEN "bytes" ELSE "absent"]
Raw4KNoImage ==
    [Raw4K(FALSE) EXCEPT !.img_path_nm = "N_IMAGE",
                         !.vhcl_img_file_nm = "N_IMAGE",
                         !.nopl_img_file_nm = "N_IMAGE"]
QueueRecord(dtype) ==
    [NoFields EXCEPT !.data_type = dtype, !.unique_key_plain = "100,160",
                     !.img_path_nm = "/imgq", !.img_file_nm = "q_100.jpg"]
IncidentRecord(dtype) ==
    [NoFields EXCEPT !.data_type = dtype, !.unique_key_plain = "T1,100",
                     !.img_path_nm = "/imga", !.img_file_nm = "abn_100.jpg"]
PedRecord ==
    [NoFields EXCEPT !.data_type = "ped", !.unique_key_plain = "P1,100"]
PresenceRecord ==
    [NoFields EXCEPT !.data_type = "pr_vh", !.unique_key_plain = "int 1"]
\* _route_sqlite_stats stamps its record as prepared.
SqliteStatRecord ==
    [NoFields EXCEPT !.data_type = "st", !.unique_key_plain = "S1",
                     !.prepared = "True"]

ServerQueueRecords ==
    {Vehicle2K, MergeSeedRecord, MergedRecord, Raw4K(TRUE), Raw4K(FALSE),
     Raw4KNoImage, QueueRecord("approach_queue"), QueueRecord("lanes_queue"),
     IncidentRecord("abn_start"), IncidentRecord("abn_end"), PedRecord,
     PresenceRecord, SqliteStatRecord}

\* A stage puts a record on to_server_q.
PutRecord ==
    /\ Len(prep_in) + Len(prep_log) < MaxPrepared
    /\ \E data \in ServerQueueRecords :
          prep_in' = Append(prep_in, [data |-> data, replay_of |-> 0])
    /\ UNCHANGED <<sender_vars, merger_vars, receiver_vars, discovery_vars,
                   stopped, prep_log, ocr_vars, retry_vars, insert_vars, object_vars>>

\* DataSender.main_loop lines 168-184 on the head of the queue, camera_id
\* being set: the record is prepared unless it carries "_prepared".
PrepareStep ==
    /\ "sender" \notin stopped
    /\ prep_in # <<>>
    /\ camera_id # "None"
    /\ LET data == Head(prep_in).data
           ran == data.prepared = "absent"
           res == IF ran THEN prepare(data, camera_id, lane_offset)
                         ELSE [raised |-> FALSE, data |-> data]
       IN /\ prep_log' = Append(prep_log,
                                [before |-> data, after |-> res.data,
                                 replay_of |-> Head(prep_in).replay_of,
                                 ran |-> ran, raised |-> res.raised,
                                 cam |-> camera_id, offset |-> lane_offset])
          /\ stopped' = stopped \cup after_exception("sender", res.raised)
    /\ prep_in' = Tail(prep_in)
    /\ UNCHANGED <<sender_vars, merger_vars, receiver_vars, discovery_vars,
                   ocr_vars, retry_vars, insert_vars, object_vars>>

\* The spool round trip with the "_prepared" entry lost on the way.
spool_round_trip_unflagged(data) ==
    [ data_type |-> py_value(json_value(data.data_type)),
      unique_key_plain |-> py_value(json_value(data.unique_key_plain)),
      unique_key |-> py_value(json_value(data.unique_key)),
      spot_camr_id |-> py_value(json_value(data.spot_camr_id)),
      lane_no |-> py_value(json_value(data.lane_no)),
      img_path_nm |-> py_value(json_value(data.img_path_nm)),
      vhcl_img_file_nm |-> py_value(json_value(data.vhcl_img_file_nm)),
      nopl_img_file_nm |-> py_value(json_value(data.nopl_img_file_nm)),
      img_file_nm |-> py_value(json_value(data.img_file_nm)),
      image_file |-> py_value(json_value(data.image_file)),
      plate_image_data_4k |-> py_value(json_value(data.plate_image_data_4k)),
      vhno_nm |-> py_value(json_value(data.vhno_nm)),
      object_id |-> py_value(json_value(data.object_id)),
      vhcl_dttn_2k_id |-> py_value(json_value(data.vhcl_dttn_2k_id)),
      vhcl_dttn_4k_id |-> py_value(json_value(data.vhcl_dttn_4k_id)),
      vhcl_dttn_id |-> py_value(json_value(data.vhcl_dttn_id)),
      prepared |-> "absent" ]

\* A prepared record through the spool: json.dumps in
\* FailedMessageTable.insert, json.loads in FailedDataSender.main_loop.
spool_round_trip(data) ==
    [ data_type |-> py_value(json_value(data.data_type)),
      unique_key_plain |-> py_value(json_value(data.unique_key_plain)),
      unique_key |-> py_value(json_value(data.unique_key)),
      spot_camr_id |-> py_value(json_value(data.spot_camr_id)),
      lane_no |-> py_value(json_value(data.lane_no)),
      img_path_nm |-> py_value(json_value(data.img_path_nm)),
      vhcl_img_file_nm |-> py_value(json_value(data.vhcl_img_file_nm)),
      nopl_img_file_nm |-> py_value(json_value(data.nopl_img_file_nm)),
      img_file_nm |-> py_value(json_value(data.img_file_nm)),
      image_file |-> py_value(json_value(data.image_file)),
      plate_image_data_4k |-> py_value(json_value(data.plate_image_data_4k)),
      vhno_nm |-> py_value(json_value(data.vhno_nm)),
      object_id |-> py_value(json_value(data.object_id)),
      vhcl_dttn_2k_id |-> py_value(json_value(data.vhcl_dttn_2k_id)),
      vhcl_dttn_4k_id |-> py_value(json_value(data.vhcl_dttn_4k_id)),
      vhcl_dttn_id |-> py_value(json_value(data.vhcl_dttn_id)),
      prepared |-> py_value(json_value(data.prepared)) ]

\* The sender could not deliver a record it had taken (lines 201-204: the
\* record goes to the spool) and the retry worker puts it back on
\* to_server_q (lines 663-681).  A record with image bytes cannot be
\* serialized and never comes back.
ReplayStep ==
    /\ Len(prep_in) + Len(prep_log) < MaxPrepared
    /\ \E k \in DOMAIN prep_log :
          /\ ~prep_log[k].raised
          /\ prep_log[k].after.data_type # "4k_R"
          /\ \A j \in DOMAIN prep_log : prep_log[j].replay_of # k
          /\ \A j \in DOMAIN prep_in : prep_in[j].replay_of # k
          /\ prep_in' = Append(prep_in,
                               [data |-> spool_round_trip(prep_log[k].after),
                                replay_of |-> k])
    /\ UNCHANGED <<sender_vars, merger_vars, receiver_vars, discovery_vars,
                   stopped, prep_log, ocr_vars, retry_vars, insert_vars, object_vars>>

\* A site whose camera id is known; the lane offset may not be.
InitPrepare ==
    /\ InitMerger /\ InitReceiver /\ InitDiscovery /\ InitWorkers
    /\ camera_id \in CameraIds
    /\ lane_offset \in PrepOffsets
    /\ to_server_q = <<>>
    /\ spool = <<>>
    /\ row_seq = 0
    /\ retry_pc = "wait"
    /\ retry_id = 0
    /\ published = 0
    /\ round = [id \in RecordIds |-> RoundNone(id)]
    /\ recalled = [id \in RecordIds |-> {}]
    /\ unset_seen = {}

NextPrepare ==
    \/ PutRecord
    \/ PrepareStep
    \/ ReplayStep

SpecPrepare == InitPrepare /\ [][NextPrepare]_vars

\* The image file names a prepared record carries, with the names it had
\* before prepare.
image_names(e) ==
    LET dtype == e.before.data_type
    IN (IF dtype \in VehicleTypes
        THEN {[new |-> e.after.vhcl_img_file_nm,
               old |-> e.before.vhcl_img_file_nm,
               dir |-> e.before.img_path_nm]}
        ELSE {[new |-> e.after.img_file_nm, old |-> e.before.img_file_nm,
               dir |-> e.before.img_path_nm]})
       \cup
       (IF dtype = "4k_R"
        THEN {[new |-> e.after.nopl_img_file_nm,
               old |-> e.before.nopl_img_file_nm,
               dir |-> e.before.img_path_nm]}
        ELSE {})

\* {type_prefix}_{md5(original)}.jpg, the original being the file name or
\* the file name under its local directory.
hashed_form(n) ==
    \E prefix \in {"10_", "20_", "30_"} :
       \E original \in {n.old, n.dir \o "/" \o n.old, n.dir \o n.old} :
          n.new = prefix \o hash_md5(original) \o ".jpg"

\* C22: after prepare, every image-bearing record has unique_key set,
\* image_path_name equal to the remote directory and each of its image file
\* names of the form {type_prefix}_{md5(original name)}.jpg with type_prefix
\* 10, 20 or 30.
PreparePostcondition ==
    \A i \in DOMAIN prep_log :
       LET e == prep_log[i]
       IN (e.ran /\ ~e.raised /\ e.before.data_type \in ImageTypes) =>
             /\ e.after.unique_key # "absent"
             /\ \E rp \in {"car_image_path_2k", "car_image_path_4k",
                           "abnormal_image_path", "queue_image_path"},
                   ty \in {10, 20, 30} :
                  e.after.img_path_nm =
                     image_remote(rp) \o "/" \o e.cam \o "/"
                       \o generate_time_path("100", ty)
             /\ \A n \in image_names(e) : hashed_form(n)

----------------------------------------------------------------------------
(***************************************************************************)
(* Part V.  The plate reader (LpDetector.main_loop).                        *)
(***************************************************************************)

MaxCandidates == 3
MaxOcr == 1

\* What cv2.imread, _detect_plate_crop and the character detector give for
\* one candidate image: a file cv2.imread cannot decode (it returns None),
\* no plate box, a plate without characters, or a plate with characters
\* whose confidences (in tenths; NMS keeps scores of 0.5 and more) add up
\* to score.
Readings ==
    { [plate |-> "unreadable", text |-> "", score |-> 0],
      [plate |-> "None", text |-> "", score |-> 0],
      [plate |-> "crop", text |-> "", score |-> 0],
      [plate |-> "crop", text |-> "12A3456", score |-> 9],
      [plate |-> "crop", text |-> "12A3450", score |-> 9],
      [plate |-> "crop", text |-> "72B", score |-> 5] }

CandidateLists ==
    UNION { [1..n -> Readings] : n \in 0..MaxCandidates }

\* The candidate image files _grep_images found, by position.
image_of(i) == CASE i = 1 -> "img1" [] i = 2 -> "img2" [] i = 3 -> "img3"
                 [] OTHER -> "img4"

\* LpDetector._ocr_plate: text and summed confidence in tenths; 0.1 for a
\* missing plate image and for a plate without characters.
ocr_plate(c) ==
    CASE c.plate = "None" -> [plate_num |-> "N_PLATE", conf |-> 1]
      [] c.score = 0      -> [plate_num |-> "N_OCR", conf |-> 1]
      [] OTHER            -> [plate_num |-> c.text, conf |-> c.score]

improves_or_ties(ocr_conf, best_ocr) == ocr_conf >= best_ocr

\* line 147: if ocr_conf > best_ocr
improves(ocr_conf, best_ocr) == ocr_conf > best_ocr

NoBest ==
    [best_ocr |-> 0, best_plate_num |-> "", best_plate |-> "None",
     best_image |-> "None", raised |-> FALSE]

\* cv2.imread(path): the image, or None for a file it cannot decode.
imread(c, i) == IF c.plate = "unreadable" THEN "None" ELSE image_of(i)

\* The loop over image_paths (lines 123-154) from candidate i on.  For an
\* image that is None, _detect_plate_crop raises (cv2.dnn.blobFromImage in
\* yolo.detect_objects, image.shape) and the exception leaves the loop.
RECURSIVE best_from(_, _, _, _)
best_from(kncr_cd, cands, i, best) ==
    IF i > Len(cands) \/ best.raised THEN best
    ELSE IF kncr_cd = "MOTOR"
    THEN best_from(kncr_cd, cands, i + 1,
                   IF best.best_image = "None"
                   THEN [best EXCEPT !.best_image = imread(cands[i], i),
                                     !.best_plate_num = "N_PLATE"]
                   ELSE best)
    ELSE IF imread(cands[i], i) = "None"
    THEN [best EXCEPT !.raised = TRUE]
    ELSE LET r == ocr_plate(cands[i])
         IN best_from(kncr_cd, cands, i + 1,
                      IF improves(r.conf, best.best_ocr)
                      THEN [best_ocr |-> r.conf,
                            best_plate_num |-> r.plate_num,
                            best_plate |-> IF cands[i].plate = "None"
                                           THEN "None"
                                           ELSE "plate-" \o image_of(i),
                            best_image |-> image_of(i),
                            raised |-> FALSE]
                      ELSE best)

EncodeResults == {"ok", "not_ok", "raise"}

\* The raw-4K record _route_raw_4k put on to_ocr_q.
OcrInput(kncr_cd) ==
    [ kncr_cd |-> kncr_cd, vhno_nm |-> "absent", vhno_dttn_yn |-> "absent",
      img_path_nm |-> "/img4k", vhcl_img_file_nm |-> "absent",
      nopl_img_file_nm |-> "absent", image_data_4k |-> "absent",
      plate_image_data_4k |-> "absent" ]

\* One iteration of LpDetector.main_loop on a record whose directory holds
\* the candidates cands, cv2.imencode behaving as encode.  put: the record
\* was put on to_server_q; raised: the iteration ended in the except of
\* lines 185-186.
ocr_iteration(data, cands, encode) ==
    IF cands = <<>>
    THEN [put |-> TRUE, raised |-> FALSE,
          data |-> [data EXCEPT !.vhno_nm = "N_PLATE", !.vhno_dttn_yn = "N",
                                !.img_path_nm = "N_IMAGE",
                                !.vhcl_img_file_nm = "N_IMAGE",
                                !.nopl_img_file_nm = "N_IMAGE"]]
    ELSE
      LET best == best_from(data.kncr_cd, cands, 1, NoBest)
          d1 == [data EXCEPT
                   !.vhno_dttn_yn = IF best.best_plate_num = "N_PLATE"
                                    THEN "N" ELSE "Y",
                   !.vhno_nm = best.best_plate_num,
                   !.vhcl_img_file_nm = "4K1_" \o data.kncr_cd \o "_1_100.jpg",
                   !.nopl_img_file_nm = "4K1.jpg"]
          d2 == [d1 EXCEPT !.image_data_4k = "jpg-" \o best.best_image]
          d3 == IF best.best_plate = "None" THEN d2
                ELSE [d2 EXCEPT !.plate_image_data_4k =
                                   "jpg-" \o best.best_plate]
      IN CASE best.raised ->
                [put |-> FALSE, raised |-> TRUE, data |-> data]
           [] best.best_image = "None" ->
                [put |-> TRUE, raised |-> FALSE, data |-> data]
           [] encode = "not_ok" ->
                [put |-> FALSE, raised |-> FALSE, data |-> d1]
           [] encode = "raise"  ->
                [put |-> TRUE, raised |-> FALSE, data |-> d1]
           [] OTHER             ->
                [put |-> TRUE, raised |-> FALSE, data |-> d3]

OcrStep ==
    /\ "ocr" \notin stopped
    /\ Len(ocr_log) < MaxOcr
    /\ \E kncr_cd \in {"PCAR", "MOTOR"}, cands \in CandidateLists,
          encode \in EncodeResults :
         LET it == ocr_iteration(OcrInput(kncr_cd), cands, encode)
         IN /\ ocr_log' = Append(ocr_log,
                                 [kncr_cd |-> kncr_cd, cands |-> cands,
                                  encode |-> encode, put |-> it.put,
                                  raised |-> it.raised, data |-> it.data])
            /\ stopped' = stopped \cup after_exception("ocr", it.raised)
    /\ UNCHANGED <<sender_vars, merger_vars, receiver_vars, discovery_vars,
                   prep_vars, plate_log, retry_vars, insert_vars, object_vars>>

NextOcr ==
    \/ OcrStep

SpecOcr == Init /\ [][NextOcr]_vars

\* The candidates' summed confidences, and the first candidate that has
\* the largest of them.
score_of(cands, i) == ocr_plate(cands[i]).conf
first_best(cands) ==
    CHOOSE k \in DOMAIN cands :
       /\ \A j \in DOMAIN cands : score_of(cands, j) <= score_of(cands, k)
       /\ \A j \in 1..(k - 1) : score_of(cands, j) < score_of(cands, k)

\* C23: for a raw-4K record with N candidate images the emitted plate text,
\* plate image and vehicle image are those of the candidate with the largest
\* summed character confidence, the first one processed among equals.
BestOfN ==
    \A n \in DOMAIN ocr_log :
       LET e == ocr_log[n]
       IN (e.put /\ e.cands # <<>> /\ e.kncr_cd # "MOTOR") =>
             LET k == first_best(e.cands)
             IN /\ e.data.vhno_nm = ocr_plate(e.cands[k]).plate_num
                /\ e.encode = "ok" =>
                     /\ e.data.image_data_4k = "jpg-" \o image_of(k)
                     /\ e.data.plate_image_data_4k =
                          IF e.cands[k].plate = "None" THEN "absent"
                          ELSE "jpg-plate-" \o image_of(k)

\* Three candidates were read, the second and the third tie for the largest
\* confidence with different texts, and the record was emitted with its
\* images.
BestOfNWitness ==
    \E n \in DOMAIN ocr_log :
       LET e == ocr_log[n]
       IN /\ e.put /\ e.encode = "ok" /\ e.kncr_cd = "PCAR"
          /\ Len(e.cands) = 3
          /\ score_of(e.cands, 1) < score_of(e.cands, 2)
          /\ score_of(e.cands, 2) = score_of(e.cands, 3)
          /\ e.cands[2].text # e.cands[3].text
          /\ e.data.vhno_nm = e.cands[2].text

\* The build function of a received message raised: its payload did not
\* parse.
parse_failed(e) ==
    /\ e.label \in Labels
    /\ build_function(e.redis_data, e.label, special_site).raised

\* C24: route_data never raises to the receiver, and for an unknown label
\* or a payload that fails to parse its BuildResult has three empty lists.
RouterErrorPolicy ==
    \A i \in DOMAIN received :
       LET e == received[i]
       IN /\ ~e.raised
          /\ (e.label \notin Labels \/ parse_failed(e)) =>
                e.to_server = <<>> /\ e.to_merge = <<>> /\ e.to_ocr = <<>>

\* The receiver routed a message with an unknown label and a message whose
\* payload failed to parse; neither raised nor enqueued anything.
RouterErrorPolicyWitness ==
    /\ \E i \in DOMAIN received : received[i].label = UnknownLabel
    /\ \E i \in DOMAIN received :
          /\ parse_failed(received[i])
          /\ ~received[i].raised
          /\ received[i].to_server = <<>>

----------------------------------------------------------------------------
(***************************************************************************)
(* Part VI.  The order of the characters of a plate (LpDetector._ocr_plate) *)
(***************************************************************************)

MaxChars == 3

\* Box corners of detected characters: x in units of a character width, y
\* in pixels.
CharXs == {0, 1, 2}
CharYs == {0, 4, 8, 20}
\* Non-maximum suppression leaves no two boxes at the same place.
CharSets ==
    { chars \in UNION { [1..n -> [x : CharXs, y : CharYs]] :
                           n \in 1..MaxChars } :
        \A i, j \in DOMAIN chars : i # j => chars[i] # chars[j] }

RECURSIVE sum_upto(_, _)
sum_upto(f, n) == IF n = 0 THEN 0 ELSE f[n] + sum_upto(f, n - 1)
sum_of(f) == sum_upto(f, Len(f))

\* LinearRegression().fit(x_center, y_center): the slope as the fraction
\* num/den with den > 0 (slope 0 when every x is the same), and n*den times
\* the value the line predicts at x.
regression(chars) ==
    LET n   == Len(chars)
        sx  == sum_of([i \in 1..n |-> chars[i].x])
        sy  == sum_of([i \in 1..n |-> chars[i].y])
        sxx == n * sum_of([i \in 1..n |-> chars[i].x * chars[i].x]) - sx * sx
        sxy == n * sum_of([i \in 1..n |-> chars[i].x * chars[i].y]) - sx * sy
    IN IF sxx = 0 THEN [num |-> 0, den |-> 1, sx |-> sx, sy |-> sy]
       ELSE [num |-> sxy, den |-> sxx, sx |-> sx, sy |-> sy]

\* n*den*y_predict[i]
predict_scaled(chars, i) ==
    LET r == regression(chars)
    IN Len(chars) * r.num * chars[i].x + (r.den * r.sy - r.num * r.sx)

\* variance >= 10, variance being the mean squared deviation of the y of
\* the characters from the regression line (lines 300-305, 321).
two_lines(chars) ==
    LET n == Len(chars)
        r == regression(chars)
        dev == [i \in 1..n |->
                  (n * r.den * chars[i].y - predict_scaled(chars, i))
                * (n * r.den * chars[i].y - predict_scaled(chars, i))]
    IN sum_of(dev) >= 10 * n * (n * r.den) * (n * r.den)

\* lines 308-314: for every i, every other character whose y is less than 9
\* from that of i gets the y of i; ys changes while the loops run.
RECURSIVE snap_from(_, _, _)
snap_from(ys, i, j) ==
    IF i > Len(ys) THEN ys
    ELSE IF j > Len(ys) THEN snap_from(ys, i + 1, 1)
    ELSE IF i # j /\ abs(ys[i] - ys[j]) < 9
         THEN snap_from([ys EXCEPT ![j] = ys[i]], i, j + 1)
         ELSE snap_from(ys, i, j + 1)
snap(chars) ==
    LET ys == snap_from(<<>> \o [i \in 1..Len(chars) |-> chars[i].y], 1, 1)
    IN [i \in 1..Len(chars) |-> [x |-> chars[i].x, y |-> ys[i]]]

\* sorted(..., key = x) of the characters idx (positions in detection
\* order): stable, so characters of equal x keep their detection order.
RECURSIVE insert_by_x(_, _, _)
insert_by_x(chars, out, k) ==
    IF out = <<>> THEN <<k>>
    ELSE IF chars[out[Len(out)]].x <= chars[k].x THEN Append(out, k)
    ELSE Append(insert_by_x(chars, SubSeq(out, 1, Len(out) - 1), k),
                out[Len(out)])
RECURSIVE sorted_by_x(_, _)
sorted_by_x(chars, idx) ==
    IF idx = <<>> THEN <<>>
    ELSE insert_by_x(chars,
                     sorted_by_x(chars, SubSeq(idx, 1, Len(idx) - 1)),
                     idx[Len(idx)])

\* The positions 1..n that satisfy test, in detection order.
RECURSIVE select_upto(_, _)
select_upto(test, n) ==
    IF n = 0 THEN <<>>
    ELSE IF test[n] THEN Append(select_upto(test, n - 1), n)
    ELSE select_upto(test, n - 1)

\* lines 326-330: the snapped characters above the regression line.
above_line(chars, snapped) ==
    [i \in 1..Len(chars) |->
       Len(chars) * regression(chars).den * snapped[i].y
          < predict_scaled(chars, i)]

\* lines 333-364: the snapped characters above the line of the regression
\* slope through the midpoint of the centroids of zip1 and zip2.
above_bisector(chars, snapped, zip1, zip2) ==
    LET r  == regression(chars)
        nu == Len(zip1)
        nd == Len(zip2)
        ux == sum_of([k \in 1..nu |-> snapped[zip1[k]].x])
        uy == sum_of([k \in 1..nu |-> snapped[zip1[k]].y])
        dx == sum_of([k \in 1..nd |-> snapped[zip2[k]].x])
        dy == sum_of([k \in 1..nd |-> snapped[zip2[k]].y])
    IN [i \in 1..Len(chars) |->
          2 * nu * nd * r.den * snapped[i].y
             < 2 * nu * nd * r.num * snapped[i].x
               + r.den * (uy * nd + dy * nu) - r.num * (ux * nd + dx * nu)]

join_lines_swapped(upper, down) == down \o upper

\* line 371: zipped = upper + down
join_lines(upper, down) == upper \o down

\* _ocr_plate from the regression on: the detected characters in the order
\* of the plate text, or "raise" (the division by the size of an empty
\* group, lines 338-339 and 347-348).
plate_order(chars) ==
    LET n == Len(chars)
        snapped == snap(chars)
        all == <<>> \o [i \in 1..n |-> i]
    IN IF ~two_lines(chars)
       THEN [raised |-> FALSE, two |-> FALSE,
             order |-> sorted_by_x(snapped, all)]
       ELSE
        LET up1  == above_line(chars, snapped)
            zip1 == select_upto(up1, n)
            zip2 == select_upto([i \in 1..n |-> ~up1[i]], n)
        IN IF zip1 = <<>> \/ zip2 = <<>>
           THEN [raised |-> TRUE, two |-> TRUE, order |-> <<>>]
           ELSE
            LET up2   == above_bisector(chars, snapped, zip1, zip2)
                upper == select_upto(up2, n)
                down  == select_upto([i \in 1..n |-> ~up2[i]], n)
            IN [raised |-> FALSE, two |-> TRUE,
                order |-> join_lines(sorted_by_x(snapped, upper),
                                     sorted_by_x(snapped, down))]

\* The character detector returns the boxes chars for a plate image and
\* _ocr_plate orders them.
ReadPlate ==
    /\ "ocr" \notin stopped
    /\ plate_log = <<>>
    /\ \E chars \in CharSets :
         \E res \in {plate_order(chars)} :
            /\ plate_log' = <<[chars |-> chars, raised |-> res.raised,
                               two |-> res.two, order |-> res.order]>>
            /\ stopped' = stopped \cup after_exception("ocr", res.raised)
    /\ UNCHANGED <<sender_vars, merger_vars, receiver_vars, discovery_vars,
                   prep_vars, ocr_log, retry_vars, insert_vars, object_vars>>

NextPlate ==
    \/ ReadPlate

SpecPlate == Init /\ [][NextPlate]_vars

\* The order is a permutation of the detected characters.
is_permutation(e) ==
    /\ Len(e.order) = Len(e.chars)
    /\ \A i \in DOMAIN e.chars : \E k \in DOMAIN e.order : e.order[k] = i

\* The characters of positions from..to of the order have ascending x.
ascending(e, from, to, strict) ==
    \A k \in from..(to - 1) :
       IF strict THEN e.chars[e.order[k]].x < e.chars[e.order[k + 1]].x
                 ELSE e.chars[e.order[k]].x <= e.chars[e.order[k + 1]].x

\* The order is an upper group followed by a lower group, the groups being
\* the sides of the bisector, each with ascending x.
upper_then_lower(e, strict) ==
    LET snapped == snap(e.chars)
        up1  == above_line(e.chars, snapped)
        zip1 == select_upto(up1, Len(e.chars))
        zip2 == select_upto([i \in DOMAIN e.chars |-> ~up1[i]], Len(e.chars))
        up2  == above_bisector(e.chars, snapped, zip1, zip2)
    IN \E m \in 0..Len(e.order) :
          /\ \A k \in 1..m : up2[e.order[k]]
          /\ \A k \in (m + 1)..Len(e.order) : ~up2[e.order[k]]
          /\ ascending(e, 1, m, strict)
          /\ ascending(e, m + 1, Len(e.order), strict)

\* C25: below the variance threshold the characters come out in strictly
\* ascending x; from the threshold on they come out as the upper group
\* followed by the lower group, each sorted by x, the groups being the two
\* non-empty sides of the bisector.
PlateOrderingStrict ==
    \A n \in DOMAIN plate_log :
       LET e == plate_log[n]
       IN /\ ~e.raised
          /\ is_permutation(e)
          /\ ~e.two => ascending(e, 1, Len(e.order), TRUE)
          /\ e.two => upper_then_lower(e, FALSE)

\* C26: in every reachable state in which camera_id is set, lane_offset is
\* set too, so that preparing a raw-4K record never finds lane_offset unset.
LaneOffsetAvailable == camera_id # "None" => lane_offset # "None"

----------------------------------------------------------------------------
(***************************************************************************)
(* Part VII.  A fused vehicle: its merge-seed and its merged record on the  *)
(* way to the sinks.                                                       *)
(***************************************************************************)

\* The record ids of the merge-seed and of the merged record of one vehicle.
SeedId == 1
MergedId == 2

\* DataReceiver.main_loop puts the to_server list of _route_2k on
\* to_server_q; the merge-table record (merge-seed) is on it.
PutSeed ==
    /\ published = 0
    /\ to_server_q' = Append(to_server_q,
                             NewRecord(SeedId, "merge", "plain", NONE_LIST))
    /\ published' = SeedId
    /\ UNCHANGED <<camera_id, lane_offset, spool, row_seq, retry_pc, retry_id,
                   round, recalled, unset_seen, merger_vars, receiver_vars,
                   discovery_vars, worker_vars>>

\* DataMerger._compare puts the merged record of the vehicle on to_server_q
\* once it has paired the 2K record with a 4K record; the 2K record reached
\* the merger from the same routing step that queued the seed.
PutMerged ==
    /\ published = SeedId
    /\ to_server_q' = Append(to_server_q,
                             NewRecord(MergedId, "merge", "plain", NONE_LIST))
    /\ published' = MergedId
    /\ UNCHANGED <<camera_id, lane_offset, spool, row_seq, retry_pc, retry_id,
                   round, recalled, unset_seen, merger_vars, receiver_vars,
                   discovery_vars, worker_vars>>

NextSeed ==
    \/ PutSeed
    \/ PutMerged
    \/ SenderStep
    \/ RetryWake
    \/ RetryFetch
    \/ RetryDelete

SpecSeed == InitPresence /\ [][NextSeed]_vars

\* The sinks that hold record id: its sent_to entry is True.
inserted_at(r, id) == {d \in Dests : r[id].data.sent_to[d] = "True"}

\* C27: at every sink the merged record of a vehicle is inserted after the
\* vehicle's merge-seed, also when the seed's first attempt failed and it
\* is replayed from the spool: no step inserts the seed at a sink that
\* already holds the merged record.
MergedAfterSeed ==
    [][\A d \in Dests :
          (d \in inserted_at(round', SeedId) /\ d \notin inserted_at(round, SeedId))
             => d \notin inserted_at(round, MergedId)]_vars

\* C28: the prepare step completes without raising for every record the
\* router, the merger or the plate reader can put on to_server_q, presence
\* records and N_IMAGE raw-4K records included.
PrepareNeverRaises ==
    \A i \in DOMAIN prep_log : ~prep_log[i].raised

\* The first round of the record of log entry k, and whether one of its
\* earlier rounds ran the prepare step.
RECURSIVE first_round(_)
first_round(k) ==
    IF prep_log[k].replay_of = 0 THEN k
    ELSE first_round(prep_log[k].replay_of)
RECURSIVE prepared_before(_)
prepared_before(k) ==
    /\ prep_log[k].replay_of # 0
    /\ \/ prep_log[prep_log[k].replay_of].ran
       \/ prepared_before(prep_log[k].replay_of)

\* The id field _hash_data replaces.
id_field(data) ==
    CASE data.data_type = "2k" -> data.vhcl_dttn_2k_id
      [] data.data_type = "merge" -> data.vhcl_dttn_id
      [] data.data_type = "4k_R" -> data.vhcl_dttn_4k_id
      [] OTHER -> "absent"

reinjects(id) ==
    /\ retry_pc = "fetch"
    /\ retry_pc' = "delete"
    /\ to_server_q' # to_server_q
    /\ to_server_q'[Len(to_server_q')].unique_key_plain = id

\* C30: a record the retry worker re-injected and the sender spooled again
\* is not re-injected again during the same tick.
OncePerTick ==
    [][\A id \in RecordIds : reinjects(id) => id \notin tick_seen]_vars

\* The places a record can be in: entries of to_server_q and spool rows.
queued(id) == {k \in DOMAIN to_server_q : to_server_q[k].unique_key_plain = id}
rows_of(id) == {k \in DOMAIN spool : spool[k].payload.unique_key_plain = id}
copies(id) == Cardinality(queued(id)) + Cardinality(rows_of(id))

\* The retry worker holds a fetched row of record id that it has not deleted.
delete_pending(id) ==
    /\ retry_pc = "delete"
    /\ \E k \in rows_of(id) : spool[k].id = retry_id

\* The sender's last iteration of the record ended with nothing left to
\* store: every destination it needed was acknowledged.
fully_delivered(id) ==
    round[id].cam = "known" /\ ~round[id].raised /\ ~round[id].need

\* delete_by_id removes exactly the row that was fetched; a row the sender
\* inserted between the fetch and the delete stays.
DeleteExact ==
    [][retry_pc = "delete" /\ retry_pc' = "fetch" =>
          /\ \E k \in DOMAIN spool : spool[k].id = retry_id
          /\ spool' = SelectSeq(spool, LAMBDA r : r.id # retry_id)
          /\ Len(spool') = Len(spool) - 1]_vars

\* C31: retry re-injection neither loses nor multiplies a record under any
\* interleaving of the retry worker with the sender: once the delete of a
\* re-injected record has run, the record is in exactly one place (one
\* entry of to_server_q or one spool row; the sender's iteration is one
\* step) unless it is fully delivered.
OnePlace ==
    \A id \in replayed :
        \/ delete_pending(id)
        \/ fully_delivered(id) /\ copies(id) = 0
        \/ copies(id) = 1

\* The retry worker removes a row in this step.
retry_deletes == retry_pc = "delete" /\ retry_pc' = "fetch"

\* The retry worker found a row and left the fetch without a put.
fetch_fails ==
    /\ retry_pc = "fetch"
    /\ retry_pc' # "fetch"
    /\ spool # <<>>
    /\ to_server_q' = to_server_q

\* C32: the retry worker deletes a spool row only after the record
\* deserialized from it has been put on to_server_q; rows leave the spool
\* in no other way; if fetching or deserializing fails, the row is not
\* deleted and the tick ends in the interval wait.
RetryOrder ==
    [][ /\ Len(spool') < Len(spool) => retry_deletes
        /\ retry_deletes =>
              \A k \in DOMAIN spool :
                 spool[k].id = retry_id =>
                    /\ spool[k].payload.unique_key_plain \in tick_seen
                    /\ ~fetch_failed
        /\ fetch_fails => spool' = spool /\ retry_pc' = "wait" ]_vars

\* A fetch has failed and left its row in the spool, after another row was
\* re-injected and deleted.
RetryOrderWitness ==
    /\ fetch_failed
    /\ retry_pc = "wait"
    /\ spool # <<>>
    /\ replayed # {}

\* C33: the sender never calls insert on a sink that is not named in the
\* record's _send_to list; with no _send_to every configured sink is
\* permitted.
DestinationGating ==
    \A id \in RecordIds :
        LET data == round[id].data
            named == IF data.send_to = NONE_LIST THEN all_server_names
                                                 ELSE data.send_to
        IN round[id].called \cap all_server_names \subseteq named

\* One record named only sink A and the round called A and not B; another
\* record had no _send_to and the round called both sinks.
DestinationGatingWitness ==
    \E i, j \in RecordIds :
        /\ round[i].data.send_to = {"A"}
        /\ round[i].called \cap all_server_names = {"A"}
        /\ round[j].data.send_to = NONE_LIST
        /\ round[j].called \cap all_server_names = {"A", "B"}

\* C34: merge matching is maximal: when a matching pass has completed, no
\* key has a buffered 2K entry and a buffered 4K entry whose stop-line
\* times differ by at most one second.
MatchMaximal ==
    \A key \in Keys :
        \A i \in DOMAIN compare_2k[key], j \in DOMAIN compare_4k[key] :
            abs(compare_2k[key][i].stln_pasg_unix_tm
                  - compare_4k[key][j].stln_pasg_unix_tm) > 1

\* A pass emitted a merge and left, under one key, a 2K entry and a 4K
\* entry that the walk passed over.
MatchMaximalWitness ==
    /\ last_pass # <<>>
    /\ \E key \in Keys : compare_2k[key] # <<>> /\ compare_4k[key] # <<>>

\* C35: lifetime merge uniqueness: over all matching passes, each 2K record
\* and each 4K record that entered the merger buffers contributes to at
\* most one merged record.
MergeOnceEver ==
    \A a, b \in DOMAIN merged_q :
        a # b =>
            /\ merged_q[a].item_2k.unique_key_plain
                  # merged_q[b].item_2k.unique_key_plain
            /\ merged_q[a].item_4k.unique_key_plain
                  # merged_q[b].item_4k.unique_key_plain

\* Two passes each emitted one merge.
MergeOnceEverWitness ==
    /\ Len(merged_q) = 2
    /\ Len(last_pass) = 1

\* The bucket is in nondecreasing stop-line time.
is_sorted(bucket) ==
    \A a, b \in DOMAIN bucket :
        a < b => bucket[a].stln_pasg_unix_tm <= bucket[b].stln_pasg_unix_tm

\* C36: after any sequence of insertions, ageing deletions and
\* matched-index deletions, every bucket of compare_2k and compare_4k is
\* sorted in nondecreasing integer stop_pass_time.
SortedBuffers ==
    \A key \in Keys : is_sorted(compare_2k[key]) /\ is_sorted(compare_4k[key])

\* A bucket holds two entries of which the one that arrived later has the
\* earlier stop-line time and stands first.
SortedBuffersWitness ==
    \E key \in Keys :
        \E bucket \in {compare_2k[key], compare_4k[key]} :
            /\ Len(bucket) = 2
            /\ bucket[1].unique_key_plain > bucket[2].unique_key_plain
            /\ bucket[1].stln_pasg_unix_tm < bucket[2].stln_pasg_unix_tm

(***************************************************************************)
(* PART VIII - the RPC sink's insert (gRPCAdaptor.insert)                  *)
(***************************************************************************)

\* "response" after an attempt: the stub's return value, or what it was
\* before when the stub raised ("unbound": the name was never assigned).
response_after(response, outcome) ==
    IF outcome = "raise" THEN response ELSE outcome

\* The sharp-mode return at lines 268-274: any answer is a success.
sharp_returns(mode, outcome) == mode = "sharp" /\ outcome # "raise"

\* The remote acknowledged this attempt.
acknowledges(mode, outcome) ==
    IF mode = "sharp" THEN outcome # "raise" ELSE outcome = "200"

\* gRPCAdaptor.insert from attempt i on (lines 254-306): what it returned
\* ("True", "False") or that it raised ("raise": UnboundLocalError on
\* "response"), the number of remote calls, and whether one was
\* acknowledged.
RECURSIVE insert_from(_, _, _, _)
insert_from(call, i, response, calls) ==
    IF i > MaxAttempts
    THEN [ret |-> IF call.mode = "java" /\ response = "200"
                  THEN "True" ELSE "False",
          calls |-> calls, acked |-> FALSE]
    ELSE IF ~call.make_ok
    THEN [ret |-> "False", calls |-> calls, acked |-> FALSE]
    ELSE LET outcome == call.remote[i]
             r == response_after(response, outcome)
         IN IF sharp_returns(call.mode, outcome)
            THEN [ret |-> "True", calls |-> calls + 1, acked |-> TRUE]
            ELSE IF r = "unbound"
            THEN [ret |-> "raise", calls |-> calls + 1, acked |-> FALSE]
            ELSE IF call.mode = "java" /\ r = "200"
            THEN [ret |-> "True", calls |-> calls + 1, acked |-> TRUE]
            ELSE insert_from(call, i + 1, r, calls + 1)

grpc_insert(call) == insert_from(call, 1, "unbound", 0)

\* One call of gRPCAdaptor.insert.
GrpcInsert ==
    /\ grpc_result = Pending
    /\ grpc_result' = grpc_insert(grpc_call)
    /\ UNCHANGED <<sender_vars, merger_vars, receiver_vars, discovery_vars,
                   stopped, prep_vars, ocr_vars, retry_vars, grpc_call,
                   object_vars>>

InitRpc ==
    /\ InitSender /\ InitMerger /\ InitReceiver /\ InitDiscovery
    /\ InitStages
    /\ grpc_call \in GrpcCalls
    /\ grpc_result = Pending

NextRpc == GrpcInsert

SpecRpc == InitRpc /\ [][NextRpc]_vars

\* C37: insert on the RPC adaptor makes at most 3 remote calls, returns
\* true iff the remote acknowledged one of them, and returns false without
\* raising when every attempt fails, a raising remote call included.
RpcInsertResult ==
    grpc_result # Pending =>
        /\ grpc_result.calls <= MaxAttempts
        /\ grpc_result.ret # "raise"
        /\ (grpc_result.ret = "True") <=>
              (\E i \in 1..grpc_result.calls :
                  acknowledges(grpc_call.mode, grpc_call.remote[i]))

\* The retry worker puts a record on to_server_q in this step.
retry_injects == retry_pc = "fetch" /\ retry_pc' = "delete"

\* C38: the retry worker re-injects spooled records in the order in which
\* they were spooled: every new row gets an id above all rows in the table,
\* the row re-injected is the one with the lowest id, its record goes to
\* the tail of to_server_q, and so a row spooled later never overtakes an
\* earlier one.
ReplayInOrder ==
    [][ /\ Len(spool') > Len(spool) =>
              \A k \in DOMAIN spool : spool[k].id < spool'[Len(spool')].id
        /\ retry_injects =>
              /\ \A k \in DOMAIN spool : spool[k].id >= retry_id'
              /\ \E k \in DOMAIN spool :
                    /\ spool[k].id = retry_id'
                    /\ to_server_q' = Append(to_server_q,
                                             json_loads(spool[k].payload)) ]_vars

\* Two records are in the spool and the retry worker has re-injected the
\* one that was spooled first.
ReplayInOrderWitness ==
    /\ retry_pc = "delete"
    /\ Len(spool) >= 2
    /\ retry_id = spool[1].id
    /\ spool[1].id < spool[2].id
    /\ spool[1].payload.unique_key_plain # spool[2].payload.unique_key_plain

\* C39: for each raw-4K record taken from to_ocr_q the plate reader
\* forwards exactly one record to to_server_q: with no candidate images
\* the record marked plate_num N_PLATE, plate_detected N and path and file
\* names N_IMAGE; with candidates the record carrying the selected plate
\* text and the encoded image buffers.
OcrConservation ==
    \A n \in DOMAIN ocr_log :
       LET e == ocr_log[n]
       IN /\ e.put
          /\ e.cands = <<>> =>
                /\ e.data.vhno_nm = "N_PLATE"
                /\ e.data.vhno_dttn_yn = "N"
                /\ e.data.img_path_nm = "N_IMAGE"
                /\ e.data.vhcl_img_file_nm = "N_IMAGE"
                /\ e.data.nopl_img_file_nm = "N_IMAGE"
          /\ e.cands # <<>> =>
                /\ e.data.vhno_nm
                      = best_from(e.kncr_cd, e.cands, 1, NoBest).best_plate_num
                /\ e.data.image_data_4k # "absent"

(***************************************************************************)
(* Part IX.  The identity of the queued records.                           *)
(*                                                                         *)
(* A record is a dict object and its "_send_to" value a list object; mem   *)
(* holds every object created, a reference is its index, and the queues    *)
(* and the merger's buffer hold references.  An assignment data[key] =     *)
(* value changes the object in place, for every holder of a reference.     *)
(***************************************************************************)
MaxPayloads == 2    \* payloads the receivers take

\* The dict a build function makes of payload number n (the fields that
\* some worker assigns later, and the payload the dict stands for).
NewDict(ltype, n) ==
    [payload      |-> n,
     data_type    |-> ltype,
     spot_camr_id |-> "absent",
     lane_no      |-> "1",
     vhno_dttn_yn |-> "absent",
     vhcl_dttn_id |-> "absent",
     vhno_nm      |-> IF ltype = "4k" THEN "12A3456" ELSE "absent",
     unique_key   |-> "absent",
     img_path_nm  |-> "/img",
     send_to      |-> 0]

new_dict(m, d) ==
    [m |-> [m EXCEPT !.dicts = Append(@, d)], ref |-> Len(m.dicts) + 1]

new_list(m, l) ==
    [m |-> [m EXCEPT !.lists = Append(@, l)], ref |-> Len(m.lists) + 1]

\* data[key] = value on the object a.
setitem(m, a, key, value) == [m EXCEPT !.dicts[a][key] = value]

\* A plain assignment where the code calls copy.deepcopy: a second
\* reference to the same object.
deepcopy_shares(m, a) == [m |-> m, ref |-> a]

\* copy.deepcopy: a new dict, and a new list for the list it refers to.
deepcopy(m, a) ==
    LET d == m.dicts[a]
    IN IF d.send_to = 0 THEN new_dict(m, d)
       ELSE LET l == new_list(m, m.lists[d.send_to])
            IN new_dict(l.m, [d EXCEPT !.send_to = l.ref])

\* defaultdict(lambda: 'NULL', data): a new dict that holds the same values,
\* the same list object included (receiver.py lines 121, 127, 133).
as_defaultdict(m, a) == new_dict(m, m.dicts[a])

Routed(m, to_server, to_merge, to_ocr) ==
    [m |-> m, to_server |-> to_server, to_merge |-> to_merge,
     to_ocr |-> to_ocr]

\* The three assignments that make a merge-table record of the dict a.
as_merge_table(m, a) ==
    setitem(setitem(setitem(m, a, "data_type", "merge"),
                    a, "vhno_dttn_yn", "N"),
            a, "vhcl_dttn_id", "2k_id")

\* build_luwon on the dict a (a straight turn on lane 1).
luwon_objects(m, a) ==
    LET m1 == setitem(m, a, "spot_camr_id", luwon_dir.straight.cam_id)
        to_merge_q == deepcopy(m1, a)
        m2 == setitem(to_merge_q.m, a, "lane_no", luwon_dir.straight.lane[1])
        to_merge_table == deepcopy(m2, a)
        m3 == as_merge_table(to_merge_table.m, to_merge_table.ref)
        l == new_list(m3, {"middleware"})
        m4 == setitem(l.m, to_merge_table.ref, "send_to", l.ref)
    IN Routed(m4, <<a, to_merge_table.ref>>, <<to_merge_q.ref>>, <<>>)

\* _route_2k.
route_2k_objects(m, n, luwon_enabled) ==
    LET redis_data == new_dict(m, NewDict("2k", n))
    IN IF luwon_enabled THEN luwon_objects(redis_data.m, redis_data.ref)
       ELSE LET to_merge_table == deepcopy(redis_data.m, redis_data.ref)
                m1 == as_merge_table(to_merge_table.m, to_merge_table.ref)
                to_merge == deepcopy(m1, redis_data.ref)
            IN Routed(to_merge.m, <<redis_data.ref, to_merge_table.ref>>,
                      <<to_merge.ref>>, <<>>)

\* _route_4k.
route_4k_objects(m, n) ==
    LET redis_data == new_dict(m, NewDict("4k", n))
        to_server == deepcopy(redis_data.m, redis_data.ref)
    IN Routed(to_server.m, <<to_server.ref>>, <<redis_data.ref>>, <<>>)

\* _route_raw_4k.
route_raw_4k_objects(m, n) ==
    LET redis_data == new_dict(m, NewDict("4k_R", n))
    IN Routed(redis_data.m, <<>>, <<>>, <<redis_data.ref>>)

\* d["_send_to"] = list(send_to), which a merge-table record that already
\* has a list skips when keep is set.
tag(m, a, send_to, keep) ==
    IF keep /\ m.dicts[a].data_type = "merge" /\ m.dicts[a].send_to # 0
    THEN m
    ELSE LET l == new_list(m, send_to)
         IN setitem(l.m, a, "send_to", l.ref)

RECURSIVE tag_all(_, _, _, _, _)
tag_all(m, refs, i, send_to, keep) ==
    IF i > Len(refs) THEN m
    ELSE tag_all(tag(m, refs[i], send_to, keep), refs, i + 1, send_to, keep)

\* _set_destination.
set_destination_objects(res, send_to) ==
    IF send_to = NONE_LIST THEN res
    ELSE LET m1 == tag_all(res.m, res.to_server, 1, send_to, TRUE)
             m2 == tag_all(m1, res.to_ocr, 1, send_to, FALSE)
             m3 == tag_all(m2, res.to_merge, 1, send_to, FALSE)
         IN [res EXCEPT !.m = m3]

\* route_data.
route_objects(m, ltype, n, send_to, luwon_enabled) ==
    set_destination_objects(
        CASE ltype = "2k" -> route_2k_objects(m, n, luwon_enabled)
          [] ltype = "4k" -> route_4k_objects(m, n)
          [] OTHER        -> route_raw_4k_objects(m, n),
        send_to)

\* The receiver's loop over one list of the result: each dict is wrapped
\* and the wrapper is put on the queue.
RECURSIVE put_all(_, _, _, _)
put_all(m, refs, i, out) ==
    IF i > Len(refs) THEN [m |-> m, refs |-> out]
    ELSE LET data == as_defaultdict(m, refs[i])
         IN put_all(data.m, refs, i + 1, Append(out, data.ref))

refs_of(q) == {q[i] : i \in DOMAIN q}

\* The dicts the merger holds: on its queue or in its buffer.
merger_refs == refs_of(held.to_merge_q) \cup refs_of(held.compare)

\* One iteration of DataReceiver.main_loop.
ReceiveObjects ==
    /\ held.n < MaxPayloads
    /\ \E ltype \in {"2k", "4k", "4k_R"}, send_to \in SendToChoices :
          LET res == route_objects(mem, ltype, held.n + 1, send_to,
                                   special_site)
              s == put_all(res.m, res.to_server, 1, <<>>)
              g == put_all(s.m, res.to_merge, 1, <<>>)
              o == put_all(g.m, res.to_ocr, 1, <<>>)
          IN /\ mem' = o.m
             /\ held' = [held EXCEPT !.n = @ + 1,
                                     !.to_server_q = @ \o s.refs,
                                     !.to_merge_q = @ \o g.refs,
                                     !.to_ocr_q = @ \o o.refs]
    /\ UNCHANGED <<sender_vars, merger_vars, receiver_vars, discovery_vars,
                   stopped, prep_vars, ocr_vars, retry_vars, insert_vars>>

\* _build_before_insert on the dict a: the id replaced by its hash and the
\* image path by the remote directory.
prepare_object(m, a) ==
    LET m1 == setitem(m, a, "unique_key", "sha256")
    IN IF m.dicts[a].data_type \in ImageTypes
       THEN setitem(m1, a, "img_path_nm", "remote_dir")
       ELSE m1

\* The sender takes the head of to_server_q and prepares it.
PrepareObject ==
    /\ held.to_server_q # <<>>
    /\ LET a == Head(held.to_server_q)
       IN /\ mem' = prepare_object(mem, a)
          /\ held' = [held EXCEPT
                         !.to_server_q = Tail(@),
                         !.prepared = Append(@, [ref |-> a,
                                                 buffered |-> merger_refs])]
    /\ UNCHANGED <<sender_vars, merger_vars, receiver_vars, discovery_vars,
                   stopped, prep_vars, ocr_vars, retry_vars, insert_vars>>

\* The matching branch of Merger._compare on the buffered dicts item_2k and
\* item_4k: the new state of the objects and what goes on to_server_q.
compare_objects(m, item_2k, item_4k, luwon_cfg) ==
    LET merged == deepcopy(m, item_2k)
        m1 == setitem(setitem(setitem(merged.m, merged.ref,
                                      "data_type", "merge"),
                              merged.ref, "vhcl_dttn_id", "2k_id"),
                      merged.ref, "vhno_nm", m.dicts[item_4k].vhno_nm)
    IN IF luwon_cfg
       THEN LET res == luwon_objects(m1, merged.ref)
                first == res.to_server[1]
                m2 == setitem(res.m, item_4k, "spot_camr_id",
                              res.m.dicts[first].spot_camr_id)
                m3 == setitem(m2, item_4k, "lane_no",
                              m2.dicts[first].lane_no)
            IN [m |-> m3, put |-> <<item_4k, first>>]
       ELSE [m |-> m1, put |-> <<merged.ref>>]

without(q, gone) == SelectSeq(q, LAMBDA a : a \notin gone)

\* One iteration of Merger.main_loop: the queue is drained into the buffer,
\* and when a 2K and a 4K entry are buffered and their times match, the
\* pair is merged and removed.
MergeObjects ==
    /\ merger_refs # {}
    /\ LET buffer == held.compare \o held.to_merge_q
           of_type(t) == {i \in DOMAIN buffer :
                             mem.dicts[buffer[i]].data_type = t}
       IN \E times_match \in BOOLEAN :
             IF times_match /\ of_type("2k") # {} /\ of_type("4k") # {}
             THEN LET item_2k == buffer[CHOOSE i \in of_type("2k") :
                                     \A k \in of_type("2k") : i <= k]
                      item_4k == buffer[CHOOSE i \in of_type("4k") :
                                     \A k \in of_type("4k") : i <= k]
                      r == compare_objects(mem, item_2k, item_4k,
                                           special_site)
                  IN /\ mem' = r.m
                     /\ held' = [held EXCEPT
                           !.to_merge_q = <<>>,
                           !.compare = without(buffer, {item_2k, item_4k}),
                           !.to_server_q = @ \o r.put,
                           !.merged = Append(@, [item_2k |-> item_2k,
                                                 item_4k |-> item_4k,
                                                 put |-> r.put])]
             ELSE /\ held.to_merge_q # <<>>
                  /\ mem' = mem
                  /\ held' = [held EXCEPT !.to_merge_q = <<>>,
                                          !.compare = buffer]
    /\ UNCHANGED <<sender_vars, merger_vars, receiver_vars, discovery_vars,
                   stopped, prep_vars, ocr_vars, retry_vars, insert_vars>>

NextObjects ==
    \/ ReceiveObjects
    \/ PrepareObject
    \/ MergeObjects

SpecObjects == InitAnySite /\ [][NextObjects]_vars

\* The dicts some queue or the merger's buffer holds.
queued_refs ==
    refs_of(held.to_server_q) \cup refs_of(held.to_ocr_q) \cup merger_refs

\* No dict is held twice, and no two held dicts refer to one list.
all_distinct ==
    /\ Len(held.to_server_q) + Len(held.to_ocr_q) + Len(held.to_merge_q)
          + Len(held.compare) = Cardinality(queued_refs)
    /\ \A a, b \in queued_refs :
          a # b /\ mem.dicts[a].send_to # 0
             => mem.dicts[a].send_to # mem.dicts[b].send_to

\* The dict a and the list it refers to are the same after the step.
untouched(a) ==
    /\ mem'.dicts[a] = mem.dicts[a]
    /\ mem.dicts[a].send_to # 0 =>
          mem'.lists[mem.dicts[a].send_to] = mem.lists[mem.dicts[a].send_to]

====
